---------------------------- MODULE Spec2Model ----------------------------
(***************************************************************************)
(* Text normalisation and language routing of TTS_rus_engine               *)
(* (src/multilingual_tts.py, src/russian_tts.py, src/correct_tts.py,       *)
(* src/yoficator_module.py).                                               *)
(*                                                                         *)
(* A Python str is a sequence of Unicode code points (naturals):           *)
(*   "т.д." is <<1090, 46, 1076, 46>>.                                     *)
(* The modelled character universe is ASCII, the Russian Cyrillic letters  *)
(* U+0401, U+0410..U+044F, U+0451, and the characters re.IGNORECASE folds  *)
(* into [a-z] and [а-яё].                                                  *)
(***************************************************************************)
EXTENDS Integers, Sequences, FiniteSets, TLC

(***************************************************************************)
(* Characters                                                              *)
(***************************************************************************)
NL == 10            \* "\n"
SP == 32            \* " "
BANG == 33          \* "!"
DOT == 46           \* "."
QUESTION == 63      \* "?"
UNDERSCORE == 95    \* "_"
YO_UPPER == 1025    \* "Ё"
YO_LOWER == 1105    \* "ё"

\* str.isspace(), also the class \s of re and the separators of str.split()
\* and str.strip(): \t \n \v \f \r, U+001C..U+001F, the space.
isspace(c) == c \in (9..13) \cup (28..32)

isdigit(c) == c \in 48..57                       \* "0".."9"
IsLatinUpper(c) == c \in 65..90                  \* "A".."Z"
IsLatinLower(c) == c \in 97..122                 \* "a".."z"
IsCyrillicUpper(c) == c \in 1040..1071 \/ c = YO_UPPER   \* "А".."Я", "Ё"
IsCyrillicLower(c) == c \in 1072..1103 \/ c = YO_LOWER   \* "а".."я", "ё"
\* letters outside the two alphabets that re.IGNORECASE folds into them:
\* U+0130, U+0131 (dotted "I", dotless "i"), U+017F (long "s"), U+212A
\* (Kelvin sign) fold to Latin letters, U+1C80..U+1C86 to Cyrillic ones
IsLatinFolded(c) == c \in {304, 305, 383, 8490}
IsCyrillicFolded(c) == c \in 7296..7302
isalpha(c) ==
    \/ IsLatinUpper(c) \/ IsLatinLower(c) \/ IsCyrillicUpper(c) \/ IsCyrillicLower(c)
    \/ IsLatinFolded(c) \/ IsCyrillicFolded(c)

\* str.isalnum() of one character
isalnum(c) == isalpha(c) \/ isdigit(c)

\* the class \w of re (str patterns): alphanumeric or underscore
IsWordChar(c) == isalnum(c) \/ c = UNDERSCORE

\* str.lower() of one character; re.IGNORECASE compares characters by it
lower(c) ==
    IF IsLatinUpper(c) THEN c + 32
    ELSE IF c \in 1040..1071 THEN c + 32
    ELSE IF c = YO_UPPER THEN YO_LOWER
    ELSE c

(***************************************************************************)
(* str methods                                                             *)
(***************************************************************************)
\* the least and the greatest element of a non-empty set of integers
Min(S) == CHOOSE i \in S : \A j \in S : i <= j
Max(S) == CHOOSE i \in S : \A j \in S : i >= j

\* the indices of s that hold a character that is not whitespace
NonSpaceAt(s) == {i \in 1..Len(s) : ~isspace(s[i])}

lstrip(s) == IF NonSpaceAt(s) = {} THEN <<>> ELSE SubSeq(s, Min(NonSpaceAt(s)), Len(s))

rstrip(s) == IF NonSpaceAt(s) = {} THEN <<>> ELSE SubSeq(s, 1, Max(NonSpaceAt(s)))

strip(s) == rstrip(lstrip(s))

\* index of the first whitespace character of s, Len(s) + 1 when there is none
FirstSpace(s) ==
    LET ws == {i \in 1..Len(s) : isspace(s[i])}
    IN IF ws = {} THEN Len(s) + 1 ELSE Min(ws)

\* str.split() with no argument: the maximal runs of non-whitespace
RECURSIVE split(_)
split(s) ==
    LET t == lstrip(s)
    IN IF t = <<>> THEN <<>>
       ELSE LET n == FirstSpace(t)
            IN <<SubSeq(t, 1, n - 1)>> \o split(SubSeq(t, n, Len(t)))

\* sep.join(words)
RECURSIVE join(_, _)
join(sep, words) ==
    IF words = <<>> THEN <<>>
    ELSE IF Len(words) = 1 THEN words[1]
    ELSE words[1] \o sep \o join(sep, Tail(words))

\* text.replace(" ", "")
RemoveSpaces(s) == SelectSeq(s, LAMBDA c : c # SP)

\* text.endswith(('.', '!', '?'))
EndsWithTerminal(s) == s # <<>> /\ s[Len(s)] \in {DOT, BANG, QUESTION}

(***************************************************************************)
(* LanguageClassifier: MultilingualTTS.detect_language                     *)
(***************************************************************************)
\* one character matches re.compile(r'[а-яё]', re.IGNORECASE): a character
\* of the class, or one whose other case or case folding is in the class
cyrillic_pattern(c) == lower(c) \in 1072..1103 \/ lower(c) = YO_LOWER \/ IsCyrillicFolded(c)

\* one character matches re.compile(r'[a-z]', re.IGNORECASE)
latin_pattern(c) == lower(c) \in 97..122 \/ IsLatinFolded(c)

\* len(pattern.findall(text)) for the two one-character classes
cyrillic_count(s) == Len(SelectSeq(s, cyrillic_pattern))

latin_count(s) == Len(SelectSeq(s, latin_pattern))

\* detect_language with the second comparison written ">=": a tie and a
\* text without letters go to "english"
detect_language_tie_english(s) ==
    IF cyrillic_count(s) > latin_count(s) THEN "russian"
    ELSE IF latin_count(s) >= cyrillic_count(s) THEN "english"
    ELSE "russian"

detect_language(s) ==
    IF cyrillic_count(s) > latin_count(s) THEN "russian"
    ELSE IF latin_count(s) > cyrillic_count(s) THEN "english"
    ELSE IF cyrillic_count(s) > 0 THEN "russian"
    ELSE "russian"

(***************************************************************************)
(* InputSanitizer                                                          *)
(***************************************************************************)
\* _is_only_symbols with isalpha() in the place of isalnum()
_is_only_symbols_isalpha(s) ==
    LET text_no_spaces == RemoveSpaces(s)
    IN IF text_no_spaces = <<>> THEN TRUE
       ELSE ~(\E i \in 1..Len(text_no_spaces) : isalpha(text_no_spaces[i]))

_is_only_symbols(s) ==
    LET text_no_spaces == RemoveSpaces(s)
    IN IF text_no_spaces = <<>> THEN TRUE
       ELSE ~(\E i \in 1..Len(text_no_spaces) : isalnum(text_no_spaces[i]))

\* last index of the run of characters equal to s[i] that starts at i
RunEnd(s, i) ==
    LET other == {k \in i..Len(s) : s[k] # s[i]}
    IN IF other = {} THEN Len(s) ELSE Min(other) - 1

\* the character class "." of re without DOTALL: anything but "\n"
MatchesDot(c) == c # NL

\* where from index i on (the start of a run) a match of r'(.)\1{3,}' starts:
\* at the start of a run of four or more of a character other than "\n"
LongRunStarts(s, i) ==
    {k \in i..Len(s) : /\ MatchesDot(s[k])
                       /\ k = i \/ s[k - 1] # s[k]
                       /\ RunEnd(s, k) - k + 1 >= 4}

\* re.sub(r'(.)\1{3,}', r'\1\1\1', s) from index i on, where a run starts:
\* the scan goes left to right and a match takes the whole run (the
\* quantifier is greedy); inside a run of fewer than four there is no match
RECURSIVE RemoveLongFrom(_, _)
RemoveLongFrom(s, i) ==
    IF LongRunStarts(s, i) = {} THEN SubSeq(s, i, Len(s))
    ELSE LET k == Min(LongRunStarts(s, i))
         IN SubSeq(s, i, k - 1) \o <<s[k], s[k], s[k]>> \o RemoveLongFrom(s, RunEnd(s, k) + 1)

\* re.sub(pattern, r'\1\1\1', text, count=1): the first match only
_remove_first_long_sequence(s) ==
    IF LongRunStarts(s, 1) = {} THEN s
    ELSE LET k == Min(LongRunStarts(s, 1))
         IN SubSeq(s, 1, k - 1) \o <<s[k], s[k], s[k]>> \o SubSeq(s, RunEnd(s, k) + 1, Len(s))

_remove_long_symbol_sequences(s) == RemoveLongFrom(s, 1)

\* InputSanitizer, the first part of preprocess_text_for_tts as a function:
\* strip, "" for a text of symbols only, repeat collapse, "" for a blank
\* result
sanitize(x) ==
    LET stripped == strip(x)
        collapsed == _remove_long_symbol_sequences(stripped)
    IN IF stripped = <<>> THEN <<>>
       ELSE IF _is_only_symbols(stripped) THEN <<>>
       ELSE IF strip(collapsed) = <<>> THEN <<>>
       ELSE collapsed

(***************************************************************************)
(* NumeralExpander: _simple_number_conversion, Russian branch              *)
(***************************************************************************)
\* int(num_str) for a string of ASCII digits (leading zeros are accepted)
RECURSIVE int(_)
int(num_str) ==
    IF num_str = <<>> THEN 0
    ELSE 10 * int(SubSeq(num_str, 1, Len(num_str) - 1)) + (num_str[Len(num_str)] - 48)

\* str(n) for n >= 0: the decimal digits of n, as an f-string formats an int
RECURSIVE str(_)
str(n) == IF n < 10 THEN <<48 + n>> ELSE str(n \div 10) \o <<48 + (n % 10)>>

\* the tables self._russian_units, self._russian_tens, self._russian_hundreds
_russian_units ==
       (1 :> <<1086, 1076, 1080, 1085>>)    \* 1: "один"
    @@ (2 :> <<1076, 1074, 1072>>)    \* 2: "два"
    @@ (3 :> <<1090, 1088, 1080>>)    \* 3: "три"
    @@ (4 :> <<1095, 1077, 1090, 1099, 1088, 1077>>)    \* 4: "четыре"
    @@ (5 :> <<1087, 1103, 1090, 1100>>)    \* 5: "пять"
    @@ (6 :> <<1096, 1077, 1089, 1090, 1100>>)    \* 6: "шесть"
    @@ (7 :> <<1089, 1077, 1084, 1100>>)    \* 7: "семь"
    @@ (8 :> <<1074, 1086, 1089, 1077, 1084, 1100>>)    \* 8: "восемь"
    @@ (9 :> <<1076, 1077, 1074, 1103, 1090, 1100>>)    \* 9: "девять"
    @@ (10 :> <<1076, 1077, 1089, 1103, 1090, 1100>>)    \* 10: "десять"
    @@ (11 :> <<1086, 1076, 1080, 1085, 1085, 1072, 1076, 1094, 1072, 1090, 1100>>)    \* 11: "одиннадцать"
    @@ (12 :> <<1076, 1074, 1077, 1085, 1072, 1076, 1094, 1072, 1090, 1100>>)    \* 12: "двенадцать"
    @@ (13 :> <<1090, 1088, 1080, 1085, 1072, 1076, 1094, 1072, 1090, 1100>>)    \* 13: "тринадцать"
    @@ (14 :> <<1095, 1077, 1090, 1099, 1088, 1085, 1072, 1076, 1094, 1072, 1090, 1100>>)    \* 14: "четырнадцать"
    @@ (15 :> <<1087, 1103, 1090, 1085, 1072, 1076, 1094, 1072, 1090, 1100>>)    \* 15: "пятнадцать"
    @@ (16 :> <<1096, 1077, 1089, 1090, 1085, 1072, 1076, 1094, 1072, 1090, 1100>>)    \* 16: "шестнадцать"
    @@ (17 :> <<1089, 1077, 1084, 1085, 1072, 1076, 1094, 1072, 1090, 1100>>)    \* 17: "семнадцать"
    @@ (18 :> <<1074, 1086, 1089, 1077, 1084, 1085, 1072, 1076, 1094, 1072, 1090, 1100>>)    \* 18: "восемнадцать"
    @@ (19 :> <<1076, 1077, 1074, 1103, 1090, 1085, 1072, 1076, 1094, 1072, 1090, 1100>>)    \* 19: "девятнадцать"

\* _russian_tens with the entry of 9 left out
_russian_tens_without_9 ==
    [k \in 2..8 |->
        CASE k = 2 -> <<1076, 1074, 1072, 1076, 1094, 1072, 1090, 1100>>
          [] k = 3 -> <<1090, 1088, 1080, 1076, 1094, 1072, 1090, 1100>>
          [] k = 4 -> <<1089, 1086, 1088, 1086, 1082>>
          [] k = 5 -> <<1087, 1103, 1090, 1100, 1076, 1077, 1089, 1103, 1090>>
          [] k = 6 -> <<1096, 1077, 1089, 1090, 1100, 1076, 1077, 1089, 1103, 1090>>
          [] k = 7 -> <<1089, 1077, 1084, 1100, 1076, 1077, 1089, 1103, 1090>>
          [] k = 8 -> <<1074, 1086, 1089, 1077, 1084, 1100, 1076, 1077, 1089, 1103, 1090>>]

_russian_tens ==
       (2 :> <<1076, 1074, 1072, 1076, 1094, 1072, 1090, 1100>>)    \* 2: "двадцать"
    @@ (3 :> <<1090, 1088, 1080, 1076, 1094, 1072, 1090, 1100>>)    \* 3: "тридцать"
    @@ (4 :> <<1089, 1086, 1088, 1086, 1082>>)    \* 4: "сорок"
    @@ (5 :> <<1087, 1103, 1090, 1100, 1076, 1077, 1089, 1103, 1090>>)    \* 5: "пятьдесят"
    @@ (6 :> <<1096, 1077, 1089, 1090, 1100, 1076, 1077, 1089, 1103, 1090>>)    \* 6: "шестьдесят"
    @@ (7 :> <<1089, 1077, 1084, 1100, 1076, 1077, 1089, 1103, 1090>>)    \* 7: "семьдесят"
    @@ (8 :> <<1074, 1086, 1089, 1077, 1084, 1100, 1076, 1077, 1089, 1103, 1090>>)    \* 8: "восемьдесят"
    @@ (9 :> <<1076, 1077, 1074, 1103, 1085, 1086, 1089, 1090, 1086>>)    \* 9: "девяносто"

_russian_hundreds ==
       (1 :> <<1089, 1090, 1086>>)    \* 1: "сто"
    @@ (2 :> <<1076, 1074, 1077, 1089, 1090, 1080>>)    \* 2: "двести"
    @@ (3 :> <<1090, 1088, 1080, 1089, 1090, 1072>>)    \* 3: "триста"
    @@ (4 :> <<1095, 1077, 1090, 1099, 1088, 1077, 1089, 1090, 1072>>)    \* 4: "четыреста"
    @@ (5 :> <<1087, 1103, 1090, 1100, 1089, 1086, 1090>>)    \* 5: "пятьсот"
    @@ (6 :> <<1096, 1077, 1089, 1090, 1100, 1089, 1086, 1090>>)    \* 6: "шестьсот"
    @@ (7 :> <<1089, 1077, 1084, 1100, 1089, 1086, 1090>>)    \* 7: "семьсот"
    @@ (8 :> <<1074, 1086, 1089, 1077, 1084, 1100, 1089, 1086, 1090>>)    \* 8: "восемьсот"
    @@ (9 :> <<1076, 1077, 1074, 1103, 1090, 1100, 1089, 1086, 1090>>)    \* 9: "девятьсот"

\* the attributes a call of the Russian branch has set
RussianTables ==
    [_russian_units |-> _russian_units, _russian_tens |-> _russian_tens,
     _russian_hundreds |-> _russian_hundreds]

WORD_ZERO == <<1085, 1086, 1083, 1100>>                       \* "ноль"
WORD_THOUSAND_ONE == <<1090, 1099, 1089, 1103, 1095, 1072>>   \* "тысяча"
WORD_THOUSAND_FEW == <<1090, 1099, 1089, 1103, 1095, 1080>>   \* "тысячи"
WORD_THOUSAND_MANY == <<1090, 1099, 1089, 1103, 1095>>        \* "тысяч"

\* the value a subscript that raises KeyError stands for until the enclosing
\* "except:" of convert_russian_number turns it into "return num_str"
KeyError == <<-1>>

\* table[key], KeyError when the key is missing
Subscript(table, key) == IF key \in DOMAIN table THEN table[key] ELSE KeyError

\* an f-string of the parts, which raises if evaluating a part raised
FString(parts) ==
    IF \E i \in 1..Len(parts) : parts[i] = KeyError THEN KeyError
    ELSE join(<<SP>>, parts)

\* convert_russian_number with "thousands <= 5" in the place of
\* "thousands < 5"
RECURSIVE convert_russian_number_few_to_5(_)
convert_russian_number_few_to_5(num_str) ==
    LET num == int(num_str)
        value ==
            IF num = 0 THEN WORD_ZERO
            ELSE IF num < 20 THEN Subscript(_russian_units, num)
            ELSE IF num < 100 THEN
                LET tens == num \div 10
                    units == num % 10
                IN IF units = 0 THEN Subscript(_russian_tens, tens)
                   ELSE FString(<<Subscript(_russian_tens, tens),
                                  Subscript(_russian_units, units)>>)
            ELSE IF num < 1000 THEN
                LET hundreds == num \div 100
                    remainder == num % 100
                IN IF remainder = 0 THEN Subscript(_russian_hundreds, hundreds)
                   ELSE FString(<<Subscript(_russian_hundreds, hundreds),
                                  convert_russian_number_few_to_5(str(remainder))>>)
            ELSE IF num < 1000000 THEN
                LET thousands == num \div 1000
                    remainder == num % 1000
                    count == convert_russian_number_few_to_5(str(thousands))
                    noun == IF thousands = 1 THEN <<WORD_THOUSAND_ONE>>
                            ELSE IF thousands <= 5 THEN <<count, WORD_THOUSAND_FEW>>
                            ELSE <<count, WORD_THOUSAND_MANY>>
                IN IF remainder = 0 THEN FString(noun)
                   ELSE FString(noun \o <<convert_russian_number_few_to_5(str(remainder))>>)
            ELSE num_str
    IN IF value = KeyError THEN num_str ELSE value

\* convert_russian_number(num_str). The recursive calls pass an int n: int(n)
\* is n, and a result of n itself is formatted as str(n) by the caller's
\* f-string, so the call is the one on str(n).
RECURSIVE convert_russian_number(_)
convert_russian_number(num_str) ==
    LET num == int(num_str)
        value ==
            IF num = 0 THEN WORD_ZERO
            ELSE IF num < 20 THEN Subscript(_russian_units, num)
            ELSE IF num < 100 THEN
                LET tens == num \div 10
                    units == num % 10
                IN IF units = 0 THEN Subscript(_russian_tens, tens)
                   ELSE FString(<<Subscript(_russian_tens, tens),
                                  Subscript(_russian_units, units)>>)
            ELSE IF num < 1000 THEN
                LET hundreds == num \div 100
                    remainder == num % 100
                IN IF remainder = 0 THEN Subscript(_russian_hundreds, hundreds)
                   ELSE FString(<<Subscript(_russian_hundreds, hundreds),
                                  convert_russian_number(str(remainder))>>)
            ELSE IF num < 1000000 THEN
                LET thousands == num \div 1000
                    remainder == num % 1000
                IN IF remainder = 0 THEN
                       IF thousands = 1 THEN WORD_THOUSAND_ONE
                       ELSE IF thousands < 5 THEN
                           FString(<<convert_russian_number(str(thousands)), WORD_THOUSAND_FEW>>)
                       ELSE
                           FString(<<convert_russian_number(str(thousands)), WORD_THOUSAND_MANY>>)
                   ELSE
                       IF thousands = 1 THEN
                           FString(<<WORD_THOUSAND_ONE, convert_russian_number(str(remainder))>>)
                       ELSE IF thousands < 5 THEN
                           FString(<<convert_russian_number(str(thousands)), WORD_THOUSAND_FEW,
                                     convert_russian_number(str(remainder))>>)
                       ELSE
                           FString(<<convert_russian_number(str(thousands)), WORD_THOUSAND_MANY,
                                     convert_russian_number(str(remainder))>>)
            ELSE num_str
    IN IF value = KeyError THEN num_str ELSE value

(***************************************************************************)
(* AbbreviationExpander: the table and the substitution loop of            *)
(* _simple_number_conversion, Russian branch                               *)
(***************************************************************************)
\* the pairs of the dict display "abbreviations = {...}", in source order
abbreviations_literal ==
    << <<<<1082, 46, 1084, 46, 1085, 46>>, <<1082, 1072, 1085, 1076, 1080, 1076, 1072, 1090, 32, 1084, 1077, 1076, 1080, 1094, 1080, 1085, 1089, 1082, 1080, 1093, 32, 1085, 1072, 1091, 1082>>>>    \* 'к.м.н.': 'кандидат медицинских наук'
     , <<<<1076, 46, 1084, 46, 1085, 46>>, <<1076, 1086, 1082, 1090, 1086, 1088, 32, 1084, 1077, 1076, 1080, 1094, 1080, 1085, 1089, 1082, 1080, 1093, 32, 1085, 1072, 1091, 1082>>>>    \* 'д.м.н.': 'доктор медицинских наук'
     , <<<<1082, 46, 1090, 46, 1085, 46>>, <<1082, 1072, 1085, 1076, 1080, 1076, 1072, 1090, 32, 1090, 1077, 1093, 1085, 1080, 1095, 1077, 1089, 1082, 1080, 1093, 32, 1085, 1072, 1091, 1082>>>>    \* 'к.т.н.': 'кандидат технических наук'
     , <<<<1076, 46, 1090, 46, 1085, 46>>, <<1076, 1086, 1082, 1090, 1086, 1088, 32, 1090, 1077, 1093, 1085, 1080, 1095, 1077, 1089, 1082, 1080, 1093, 32, 1085, 1072, 1091, 1082>>>>    \* 'д.т.н.': 'доктор технических наук'
     , <<<<1090, 46, 1077, 46>>, <<1090, 1086, 32, 1077, 1089, 1090, 1100>>>>    \* 'т.е.': 'то есть'
     , <<<<1090, 46, 1082, 46>>, <<1090, 1072, 1082, 32, 1082, 1072, 1082>>>>    \* 'т.к.': 'так как'
     , <<<<1090, 46, 1076, 46>>, <<1090, 1072, 1082, 32, 1076, 1072, 1083, 1077, 1077>>>>    \* 'т.д.': 'так далее'
     , <<<<1090, 46, 1087, 46>>, <<1090, 1086, 1084, 1091, 32, 1087, 1086, 1076, 1086, 1073, 1085, 1086, 1077>>>>    \* 'т.п.': 'тому подобное'
     , <<<<1080, 32, 1090, 46, 1076, 46>>, <<1080, 32, 1090, 1072, 1082, 32, 1076, 1072, 1083, 1077, 1077>>>>    \* 'и т.д.': 'и так далее'
     , <<<<1080, 32, 1090, 46, 1087, 46>>, <<1080, 32, 1090, 1086, 1084, 1091, 32, 1087, 1086, 1076, 1086, 1073, 1085, 1086, 1077>>>>    \* 'и т.п.': 'и тому подобное'
     , <<<<1076, 1088, 46>>, <<1076, 1086, 1082, 1090, 1086, 1088>>>>    \* 'др.': 'доктор'
     , <<<<1087, 1088, 1086, 1092, 46>>, <<1087, 1088, 1086, 1092, 1077, 1089, 1089, 1086, 1088>>>>    \* 'проф.': 'профессор'
     , <<<<1072, 1082, 1072, 1076, 46>>, <<1072, 1082, 1072, 1076, 1077, 1084, 1080, 1082>>>>    \* 'акад.': 'академик'
     , <<<<1075, 1075, 46>>, <<1075, 1086, 1076, 1099>>>>    \* 'гг.': 'годы'
     , <<<<1074, 1074, 46>>, <<1074, 1077, 1082, 1072>>>>    \* 'вв.': 'века'
     , <<<<1075, 46>>, <<1075, 1086, 1076>>>>    \* 'г.': 'год'
     , <<<<1084, 1080, 1085, 46>>, <<1084, 1080, 1085, 1091, 1090, 1072>>>>    \* 'мин.': 'минута'
     , <<<<1089, 1077, 1082, 46>>, <<1089, 1077, 1082, 1091, 1085, 1076, 1072>>>>    \* 'сек.': 'секунда'
     , <<<<1095, 46>>, <<1095, 1072, 1089>>>>    \* 'ч.': 'час'
     , <<<<1089, 1091, 1090, 46>>, <<1089, 1091, 1090, 1082, 1080>>>>    \* 'сут.': 'сутки'
     , <<<<1090, 1090, 46>>, <<1090, 1086, 1084, 1072>>>>    \* 'тт.': 'тома'
     , <<<<1089, 1090, 1088, 46>>, <<1089, 1090, 1088, 1072, 1085, 1080, 1094, 1072>>>>    \* 'стр.': 'страница'
     , <<<<1089, 46>>, <<1089, 1090, 1088, 1072, 1085, 1080, 1094, 1072>>>>    \* 'с.': 'страница'
     , <<<<1075, 1083, 46>>, <<1075, 1083, 1072, 1074, 1072>>>>    \* 'гл.': 'глава'
     , <<<<1087, 1087, 46>>, <<1087, 1091, 1085, 1082, 1090, 1099>>>>    \* 'пп.': 'пункты'
     , <<<<1095, 1095, 46>>, <<1095, 1072, 1089, 1090, 1080>>>>    \* 'чч.': 'части'
     , <<<<1090, 46>>, <<1090, 1086, 1084>>>>    \* 'т.': 'том'
     , <<<<1087, 46>>, <<1087, 1091, 1085, 1082, 1090>>>>    \* 'п.': 'пункт'
     , <<<<1095, 46>>, <<1095, 1072, 1089, 1090, 1100>>>>    \* 'ч.': 'часть'
     , <<<<71, 80, 84>>, <<1076, 1078, 1080, 32, 1087, 1080, 32, 1090, 1080>>>>    \* 'GPT': 'джи пи ти'
     , <<<<65, 73>>, <<1101, 1081, 32, 1072, 1081>>>>    \* 'AI': 'эй ай'
     , <<<<67, 80, 85>>, <<1089, 1080, 32, 1087, 1080, 32, 1102>>>>    \* 'CPU': 'си пи ю'
     , <<<<71, 80, 85>>, <<1076, 1078, 1080, 32, 1087, 1080, 32, 1102>>>>    \* 'GPU': 'джи пи ю'
     , <<<<82, 65, 77>>, <<1088, 1101, 1084>>>>    \* 'RAM': 'рэм'
     , <<<<82, 79, 77>>, <<1088, 1086, 1084>>>>    \* 'ROM': 'ром'
     , <<<<85, 83, 66>>, <<1102, 32, 1101, 1089, 32, 1073, 1080>>>>    \* 'USB': 'ю эс би'
     , <<<<72, 68, 68>>, <<1093, 1101, 32, 1076, 1101, 32, 1076, 1101>>>>    \* 'HDD': 'хэ дэ дэ'
     , <<<<83, 83, 68>>, <<1101, 1089, 32, 1101, 1089, 32, 1076, 1101>>>>    \* 'SSD': 'эс эс дэ'
     , <<<<65, 80, 73>>, <<1101, 1081, 32, 1087, 1080, 32, 1072, 1081>>>>    \* 'API': 'эй пи ай'
     , <<<<85, 82, 76>>, <<1102, 32, 1072, 1088, 32, 1101, 1083>>>>    \* 'URL': 'ю ар эл'
     , <<<<72, 84, 84, 80>>, <<1093, 1101, 32, 1090, 1101, 32, 1090, 1101, 32, 1087, 1080>>>>    \* 'HTTP': 'хэ тэ тэ пи'
     , <<<<72, 84, 84, 80, 83>>, <<1093, 1101, 32, 1090, 1101, 32, 1090, 1101, 32, 1087, 1080, 32, 1101, 1089>>>>    \* 'HTTPS': 'хэ тэ тэ пи эс'
     , <<<<72, 84, 77, 76>>, <<1093, 1101, 32, 1090, 1101, 32, 1101, 1084, 32, 1101, 1083>>>>    \* 'HTML': 'хэ тэ эм эл'
     , <<<<67, 83, 83>>, <<1089, 1080, 32, 1101, 1089, 32, 1101, 1089>>>>    \* 'CSS': 'си эс эс'
     , <<<<74, 83>>, <<1076, 1078, 1077, 1081, 32, 1101, 1089>>>>    \* 'JS': 'джей эс'
     , <<<<74, 83, 79, 78>>, <<1076, 1078, 1077, 1081, 1089, 1086, 1085>>>>    \* 'JSON': 'джейсон'
     , <<<<88, 77, 76>>, <<1080, 1082, 1089, 32, 1101, 1084, 32, 1101, 1083>>>>    \* 'XML': 'икс эм эл'
     , <<<<80, 68, 70>>, <<1087, 1080, 32, 1076, 1101, 32, 1101, 1092>>>>    \* 'PDF': 'пи дэ эф'
     , <<<<77, 80, 51>>, <<1101, 1084, 32, 1087, 1080, 32, 1090, 1088, 1080>>>>    \* 'MP3': 'эм пи три'
     , <<<<77, 80, 52>>, <<1101, 1084, 32, 1087, 1080, 32, 1092, 1086>>>>    \* 'MP4': 'эм пи фо'
     , <<<<65, 86, 73>>, <<1101, 1081, 32, 1074, 1080, 32, 1072, 1081>>>>    \* 'AVI': 'эй ви ай'
     , <<<<77, 75, 86>>, <<1101, 1084, 32, 1082, 1077, 1081, 32, 1074, 1080>>>>    \* 'MKV': 'эм кей ви'
     , <<<<74, 80, 71>>, <<1076, 1078, 1077, 1081, 32, 1087, 1080, 32, 1076, 1078, 1080>>>>    \* 'JPG': 'джей пи джи'
     , <<<<80, 78, 71>>, <<1087, 1080, 32, 1101, 1085, 32, 1076, 1078, 1080>>>>    \* 'PNG': 'пи эн джи'
     , <<<<71, 73, 70>>, <<1076, 1078, 1080, 32, 1072, 1081, 32, 1101, 1092>>>>    \* 'GIF': 'джи ай эф'
     , <<<<90, 73, 80>>, <<1079, 1080, 1087>>>>    \* 'ZIP': 'зип'
     , <<<<82, 65, 82>>, <<1088, 1072, 1088>>>>    \* 'RAR': 'рар'
     , <<<<55, 90>>, <<1089, 1077, 1084, 1100, 32, 1079, 1077, 1090>>>>    \* '7Z': 'семь зет'
     , <<<<85, 78>>, <<1102, 32, 1101, 1085>>>>    \* 'UN': 'ю эн'
     , <<<<85, 78, 69, 83, 67, 79>>, <<1102, 1085, 1077, 1089, 1082, 1086>>>>    \* 'UNESCO': 'юнеско'
     , <<<<78, 65, 83, 65>>, <<1085, 1072, 1089, 1072>>>>    \* 'NASA': 'наса'
     , <<<<70, 66, 73>>, <<1101, 1092, 32, 1073, 1080, 32, 1072, 1081>>>>    \* 'FBI': 'эф би ай'
     , <<<<67, 73, 65>>, <<1089, 1080, 32, 1072, 1081, 32, 1101, 1081>>>>    \* 'CIA': 'си ай эй'
     , <<<<75, 71, 66>>, <<1082, 1072, 32, 1075, 1101, 32, 1073, 1101>>>>    \* 'KGB': 'ка гэ бэ'
     , <<<<85, 83, 83, 82>>, <<1091, 32, 1101, 1089, 32, 1101, 1089, 32, 1101, 1088>>>>    \* 'USSR': 'у эс эс эр'
     , <<<<69, 85>>, <<1080, 32, 1102>>>>    \* 'EU': 'и ю'
     , <<<<78, 65, 84, 79>>, <<1085, 1072, 1090, 1086>>>>    \* 'NATO': 'нато'
     , <<<<87, 72, 79>>, <<1076, 1072, 1073, 1083, 32, 1102, 32, 1101, 1081, 1095, 32, 1086>>>>    \* 'WHO': 'дабл ю эйч о'
     , <<<<1082, 1075>>, <<1082, 1080, 1083, 1086, 1075, 1088, 1072, 1084, 1084>>>>    \* 'кг': 'килограмм'
     , <<<<1082, 1084>>, <<1082, 1080, 1083, 1086, 1084, 1077, 1090, 1088>>>>    \* 'км': 'километр'
     , <<<<1089, 1084>>, <<1089, 1072, 1085, 1090, 1080, 1084, 1077, 1090, 1088>>>>    \* 'см': 'сантиметр'
     , <<<<1084, 1084>>, <<1084, 1080, 1083, 1083, 1080, 1084, 1077, 1090, 1088>>>>    \* 'мм': 'миллиметр'
     , <<<<1083>>, <<1083, 1080, 1090, 1088>>>>    \* 'л': 'литр'
     , <<<<1084, 1083>>, <<1084, 1080, 1083, 1083, 1080, 1083, 1080, 1090, 1088>>>>    \* 'мл': 'миллилитр'
     , <<<<1042, 1090>>, <<1074, 1072, 1090, 1090>>>>    \* 'Вт': 'ватт'
     , <<<<1082, 1042, 1090>>, <<1082, 1080, 1083, 1086, 1074, 1072, 1090, 1090>>>>    \* 'кВт': 'киловатт'
     , <<<<1040>>, <<1072, 1084, 1087, 1077, 1088>>>>    \* 'А': 'ампер'
     , <<<<1043, 1094>>, <<1075, 1077, 1088, 1094>>>>    \* 'Гц': 'герц'
     , <<<<1082, 1043, 1094>>, <<1082, 1080, 1083, 1086, 1075, 1077, 1088, 1094>>>>    \* 'кГц': 'килогерц'
     , <<<<1052, 1043, 1094>>, <<1084, 1077, 1075, 1072, 1075, 1077, 1088, 1094>>>>    \* 'МГц': 'мегагерц'
     , <<<<1043, 1043, 1094>>, <<1075, 1080, 1075, 1072, 1075, 1077, 1088, 1094>>>>    \* 'ГГц': 'гигагерц'
     , <<<<1084>>, <<1084, 1077, 1090, 1088>>>>    \* 'м': 'метр'
     , <<<<1089, 1084, 46>>, <<1089, 1084, 1086, 1090, 1088, 1080>>>>    \* 'см.': 'смотри'
     , <<<<1085, 1072, 1087, 1088, 46>>, <<1085, 1072, 1087, 1088, 1080, 1084, 1077, 1088>>>>    \* 'напр.': 'например'
     , <<<<1086, 1082, 46>>, <<1086, 1082, 1086, 1083, 1086>>>>    \* 'ок.': 'около'
     , <<<<1087, 1088, 1080, 1084, 46>>, <<1087, 1088, 1080, 1084, 1077, 1088, 1085, 1086>>>>    \* 'прим.': 'примерно'
     , <<<<1084, 1072, 1082, 1089, 46>>, <<1084, 1072, 1082, 1089, 1080, 1084, 1091, 1084>>>>    \* 'макс.': 'максимум'
     , <<<<1084, 1080, 1085, 46>>, <<1084, 1080, 1085, 1080, 1084, 1091, 1084>>>>    \* 'мин.': 'минимум'
     , <<<<1089, 1088, 46>>, <<1089, 1088, 1077, 1076, 1085, 1080, 1081>>>>    \* 'ср.': 'средний'
    >>

\* the dict a display builds, as its items() in iteration order: a pair whose
\* key was already given replaces that key's value and keeps its place
DictItems(literal) ==
    LET first == {i \in 1..Len(literal) :
                     \A j \in 1..(i - 1) : literal[j][1] # literal[i][1]}
        nth(n) == CHOOSE i \in first : Cardinality({j \in first : j <= i}) = n
        last(i) == Max({j \in i..Len(literal) : literal[j][1] = literal[i][1]})
    IN [n \in 1..Cardinality(first) |-> <<literal[nth(n)][1], literal[last(nth(n))][2]>>]

abbreviations == DictItems(abbreviations_literal)

\* length of the longest key of the items
MaxKeyLen(items) ==
    CHOOSE n \in 0..64 :
        /\ \A i \in 1..Len(items) : Len(items[i][1]) <= n
        /\ (n = 0 \/ \E i \in 1..Len(items) : Len(items[i][1]) = n)

\* sorted(items, key=lambda x: len(x[0]), reverse=True): the sort is stable,
\* items with keys of one length keep their order
RECURSIVE ByKeyLenDown(_, _)
ByKeyLenDown(items, n) ==
    IF n = 0 THEN <<>>
    ELSE SelectSeq(items, LAMBDA it : Len(it[1]) = n) \o ByKeyLenDown(items, n - 1)

\* the items as the dict gives them, without the sort
insertion_order(items) == items

SortedByKeyLen(items) == ByKeyLenDown(items, MaxKeyLen(items))

sorted_abbreviations == SortedByKeyLen(abbreviations)

\* The text while the loop runs is kept as cells: c is the character, at is
\* the index the character had in the text the loop started from (0 for a
\* character an expansion wrote), by is the index in sorted_abbreviations
\* of the entry that wrote it (0 for a character of the input). The matching
\* reads c only.
Cells(s) == [i \in 1..Len(s) |-> [c |-> s[i], at |-> i, by |-> 0]]
Written(s, k) == [i \in 1..Len(s) |-> [c |-> s[i], at |-> 0, by |-> k]]
Chars(cells) == [i \in 1..Len(cells) |-> cells[i].c]

\* the literal key matches at index i under re.IGNORECASE
LiteralAt(cells, i, key) ==
    /\ i + Len(key) - 1 <= Len(cells)
    /\ \A j \in 1..Len(key) : lower(cells[i + j - 1].c) = lower(key[j])

\* there is a character at index i and it is of class \w
WordAt(cells, i) == i \in 1..Len(cells) /\ IsWordChar(cells[i].c)

\* \b just before index i
WordBoundary(cells, i) == WordAt(cells, i - 1) # WordAt(cells, i)

HasDot(abbr) == \E j \in 1..Len(abbr) : abbr[j] = DOT

\* PatternAt with the key alone as the pattern, no boundaries
PatternAtWithoutBoundary(cells, i, abbr) == LiteralAt(cells, i, abbr)

\* PatternAt with \b + re.escape(abbr) + \b for every key
PatternAtWordBoundary(cells, i, abbr) ==
    /\ LiteralAt(cells, i, abbr)
    /\ WordBoundary(cells, i) /\ WordBoundary(cells, i + Len(abbr))

\* the pattern built for abbr matches at index i:
\*   '.' in abbr:  (?<!\w) + re.escape(abbr) + (?!\w)
\*   otherwise:    \b + re.escape(abbr) + \b
PatternAt(cells, i, abbr) ==
    /\ LiteralAt(cells, i, abbr)
    /\ IF HasDot(abbr)
       THEN ~WordAt(cells, i - 1) /\ ~WordAt(cells, i + Len(abbr))
       ELSE WordBoundary(cells, i) /\ WordBoundary(cells, i + Len(abbr))

\* what one substitution did: entry k replaced the cells i..j of the text it
\* ran on; lo..hi are their indices in the input of the loop (0: written by
\* an expansion), over is the set of entries whose expansions it rewrote
Fired(cells, i, j, k) ==
    [k |-> k, lo |-> cells[i].at, hi |-> cells[j].at,
     over |-> {cells[m].by : m \in i..j} \ {0}]

\* the indices from i on where the pattern of entry k matches
MatchesFrom(cells, i, k) ==
    {m \in i..Len(cells) : PatternAt(cells, m, sorted_abbreviations[k][1])}

\* re.sub(pattern, full, result, flags=re.IGNORECASE) for entry k, from index
\* i on: the leftmost match is replaced and the scan goes on after it
RECURSIVE SubAbbrFrom(_, _, _)
SubAbbrFrom(cells, i, k) ==
    IF MatchesFrom(cells, i, k) = {} THEN [out |-> SubSeq(cells, i, Len(cells)), fired |-> {}]
    ELSE LET abbr == sorted_abbreviations[k][1]
             full == sorted_abbreviations[k][2]
             m == Min(MatchesFrom(cells, i, k))
             rest == SubAbbrFrom(cells, m + Len(abbr), k)
         IN [out |-> SubSeq(cells, i, m - 1) \o Written(full, k) \o rest.out,
             fired |-> {Fired(cells, m, m + Len(abbr) - 1, k)} \cup rest.fired]

\* the entries from k on whose pattern matches somewhere in the text
MatchingFrom(cells, k) ==
    {n \in k..Len(sorted_abbreviations) : MatchesFrom(cells, 1, n) # {}}

\* the loop "for abbr, full in sorted(...)" from entry k on. An entry whose
\* pattern matches nowhere leaves the text as it is, so the loop goes on
\* from the next entry that matches the text as it then stands.
RECURSIVE AbbreviationLoop(_, _)
AbbreviationLoop(st, k) ==
    IF MatchingFrom(st.out, k) = {} THEN st
    ELSE LET n == Min(MatchingFrom(st.out, k))
             r == SubAbbrFrom(st.out, 1, n)
         IN AbbreviationLoop([out |-> r.out, fired |-> st.fired \cup r.fired], n + 1)

\* re.sub(r'^В\s+', 'В ', s): "В" (U+0412) at the start and the whitespace
\* after it become "В "
SubLeadingV(s) ==
    IF Len(s) >= 2 /\ s[1] = 1042 /\ isspace(s[2])
    THEN <<1042, SP>> \o lstrip(SubSeq(s, 2, Len(s)))
    ELSE s

\* the abbreviation part of the Russian branch: its text and what fired
ExpandAbbreviations(s) ==
    AbbreviationLoop([out |-> Cells(SubLeadingV(s)), fired |-> {}], 1)

\* re.sub(r'\b\d+\b', replace_numbers, s) from index i on. \d+ is greedy and
\* there is no \b between two digits, so a match is a whole run of digits
\* with a boundary on both sides.
DigitRunEnd(s, i) ==
    LET other == {m \in i..Len(s) : ~isdigit(s[m])}
    IN IF other = {} THEN Len(s) ELSE Min(other) - 1

WordCharAt(s, i) == i \in 1..Len(s) /\ IsWordChar(s[i])

\* the indices from i on where r'\b\d+\b' matches
NumberMatchesFrom(s, i) ==
    {m \in i..Len(s) : /\ isdigit(s[m])
                       /\ ~WordCharAt(s, m - 1)
                       /\ ~WordCharAt(s, DigitRunEnd(s, m) + 1)}

RECURSIVE replace_numbers(_, _)
replace_numbers(s, i) ==
    IF NumberMatchesFrom(s, i) = {} THEN SubSeq(s, i, Len(s))
    ELSE LET m == Min(NumberMatchesFrom(s, i))
         IN SubSeq(s, i, m - 1)
                \o convert_russian_number(SubSeq(s, m, DigitRunEnd(s, m)))
                \o replace_numbers(s, DigitRunEnd(s, m) + 1)

(***************************************************************************)
(* _simple_number_conversion, English branch                               *)
(***************************************************************************)
number_map_literal ==
    << <<<<48>>, <<122, 101, 114, 111>>>>    \* '0': 'zero'
     , <<<<49>>, <<111, 110, 101>>>>    \* '1': 'one'
     , <<<<50>>, <<116, 119, 111>>>>    \* '2': 'two'
     , <<<<51>>, <<116, 104, 114, 101, 101>>>>    \* '3': 'three'
     , <<<<52>>, <<102, 111, 117, 114>>>>    \* '4': 'four'
     , <<<<53>>, <<102, 105, 118, 101>>>>    \* '5': 'five'
     , <<<<54>>, <<115, 105, 120>>>>    \* '6': 'six'
     , <<<<55>>, <<115, 101, 118, 101, 110>>>>    \* '7': 'seven'
     , <<<<56>>, <<101, 105, 103, 104, 116>>>>    \* '8': 'eight'
     , <<<<57>>, <<110, 105, 110, 101>>>>    \* '9': 'nine'
     , <<<<49, 48>>, <<116, 101, 110>>>>    \* '10': 'ten'
     , <<<<49, 49>>, <<101, 108, 101, 118, 101, 110>>>>    \* '11': 'eleven'
     , <<<<49, 50>>, <<116, 119, 101, 108, 118, 101>>>>    \* '12': 'twelve'
     , <<<<49, 51>>, <<116, 104, 105, 114, 116, 101, 101, 110>>>>    \* '13': 'thirteen'
     , <<<<49, 52>>, <<102, 111, 117, 114, 116, 101, 101, 110>>>>    \* '14': 'fourteen'
     , <<<<49, 53>>, <<102, 105, 102, 116, 101, 101, 110>>>>    \* '15': 'fifteen'
     , <<<<49, 54>>, <<115, 105, 120, 116, 101, 101, 110>>>>    \* '16': 'sixteen'
     , <<<<49, 55>>, <<115, 101, 118, 101, 110, 116, 101, 101, 110>>>>    \* '17': 'seventeen'
     , <<<<49, 56>>, <<101, 105, 103, 104, 116, 101, 101, 110>>>>    \* '18': 'eighteen'
     , <<<<49, 57>>, <<110, 105, 110, 101, 116, 101, 101, 110>>>>    \* '19': 'nineteen'
     , <<<<50, 48>>, <<116, 119, 101, 110, 116, 121>>>>    \* '20': 'twenty'
     , <<<<51, 48>>, <<116, 104, 105, 114, 116, 121>>>>    \* '30': 'thirty'
     , <<<<52, 48>>, <<102, 111, 114, 116, 121>>>>    \* '40': 'forty'
     , <<<<53, 48>>, <<102, 105, 102, 116, 121>>>>    \* '50': 'fifty'
     , <<<<54, 48>>, <<115, 105, 120, 116, 121>>>>    \* '60': 'sixty'
     , <<<<55, 48>>, <<115, 101, 118, 101, 110, 116, 121>>>>    \* '70': 'seventy'
     , <<<<56, 48>>, <<101, 105, 103, 104, 116, 121>>>>    \* '80': 'eighty'
     , <<<<57, 48>>, <<110, 105, 110, 101, 116, 121>>>>    \* '90': 'ninety'
     , <<<<49, 48, 48>>, <<111, 110, 101, 32, 104, 117, 110, 100, 114, 101, 100>>>>    \* '100': 'one hundred'
     , <<<<49, 48, 48, 48>>, <<111, 110, 101, 32, 116, 104, 111, 117, 115, 97, 110, 100>>>>    \* '1000': 'one thousand'
    >>

number_map == DictItems(number_map_literal)

\* the indices from i on where old occurs in s
OccursFrom(s, i, old) ==
    {m \in i..(Len(s) - Len(old) + 1) : SubSeq(s, m, m + Len(old) - 1) = old}

\* s.replace(old, new) from index i on (old is not empty)
RECURSIVE replace(_, _, _, _)
replace(s, i, old, new) ==
    IF OccursFrom(s, i, old) = {} THEN SubSeq(s, i, Len(s))
    ELSE LET m == Min(OccursFrom(s, i, old))
         IN SubSeq(s, i, m - 1) \o new \o replace(s, m + Len(old), old, new)

\* "for num, word in sorted(number_map.items(), ...): result = result.replace(num, word)"
\* from entry k on. An entry that occurs nowhere leaves the text as it is, so
\* the loop goes on from the next entry that occurs in the text as it stands.
RECURSIVE NumberMapLoop(_, _, _)
NumberMapLoop(s, items, k) ==
    LET occurring == {n \in k..Len(items) : OccursFrom(s, 1, items[n][1]) # {}}
    IN IF occurring = {} THEN s
       ELSE LET n == Min(occurring)
            IN NumberMapLoop(replace(s, 1, items[n][1], items[n][2]), items, n + 1)

\* _simple_number_conversion: out is the returned text, fired is what the
\* abbreviation loop substituted on the way
NumberConversion(s, language) ==
    IF language = "russian"
    THEN LET expanded == ExpandAbbreviations(s)
         IN [out |-> replace_numbers(Chars(expanded.out), 1), fired |-> expanded.fired]
    ELSE [out |-> NumberMapLoop(s, SortedByKeyLen(number_map), 1), fired |-> {}]

_simple_number_conversion(s, language) == NumberConversion(s, language).out

(***************************************************************************)
(* YoficationEngine: src/yoficator_module.py                               *)
(***************************************************************************)
YE_LOWER == 1077    \* "е"
STAR == 42          \* "*"
LPAREN == 40        \* "("
RPAREN == 41        \* ")"
BAR == 124          \* "|"

Contains(s, c) == \E i \in 1..Len(s) : s[i] = c

\* s.split(c) for a one-character separator: the pieces between the separators
RECURSIVE SplitOn(_, _)
SplitOn(s, c) ==
    IF ~Contains(s, c) THEN <<s>>
    ELSE LET m == Min({i \in 1..Len(s) : s[i] = c})
         IN <<SubSeq(s, 1, m - 1)>> \o SplitOn(SubSeq(s, m + 1, Len(s)), c)

\* re.sub(r'ё', 'е', value): the lookup key of a dictionary value
FoldYo(value) == [i \in 1..Len(value) |-> IF value[i] = YO_LOWER THEN YE_LOWER ELSE value[i]]

\* the (key, value) pairs one line of yo.dat adds, in order; a line with
\* more than one "(" makes the unpacking of cline.split("(") raise ValueError
LineRaises(line) == ~Contains(line, STAR) /\ Len(SplitOn(line, LPAREN)) > 2

LineEntries(line) ==
    IF Contains(line, STAR) THEN <<>>
    ELSE LET cline == line          \* the lines are held without their "\n"
             bline == IF Contains(cline, LPAREN) THEN SplitOn(cline, LPAREN)[1] ELSE cline
             sline == IF Contains(cline, LPAREN)
                      THEN SelectSeq(SplitOn(cline, LPAREN)[2], LAMBDA c : c # RPAREN)
                      ELSE <<>>
         IN IF Contains(sline, BAR)
            THEN LET ssline == SplitOn(sline, BAR)
                 IN [n \in 1..Len(ssline) |-> <<FoldYo(bline \o ssline[n]), bline \o ssline[n]>>]
            ELSE << <<FoldYo(bline), bline>> >>

RECURSIVE AllEntries(_)
AllEntries(lines) ==
    IF lines = <<>> THEN <<>> ELSE LineEntries(Head(lines)) \o AllEntries(Tail(lines))

\* Yoficator._load_dictionary: self.dictionary after the file was read (a
\* later entry with the same key replaces the value); FileNotFoundError
\* leaves the empty dict
EmptyDictionary == [k \in {} |-> <<>>]

_load_dictionary(file) ==
    IF file.found = FALSE THEN EmptyDictionary
    ELSE LET entries == AllEntries(file.lines)
             keys == {entries[i][1] : i \in 1..Len(entries)}
         IN [k \in keys |-> entries[Max({i \in 1..Len(entries) : entries[i][1] = k})][2]]

\* a yo.dat of the format the loader reads (the file itself is data outside
\* the sources)
yo_dat_lines ==
    << <<42, 32, 1105, 1083, 1082, 1072, 58, 32, 1089, 1090, 1088, 1086, 1082, 1072, 32, 1089, 32, 39, 42, 39, 32, 1087, 1088, 1086, 1087, 1091, 1089, 1082, 1072, 1077, 1090, 1089, 1103>>    \* "* ёлка: строка с '*' пропускается"
     , <<1105, 1083, 1082, 40, 1072, 124, 1080, 124, 1091, 41>>    \* "ёлк(а|и|у)"
     , <<1074, 1089, 1105>>    \* "всё"
     , <<1084, 1105, 1076, 40, 1086, 1084, 41>>    \* "мёд(ом)"
     , <<1079, 1077, 1083, 1105, 1085, 40, 1099, 1081, 124, 1072, 1103, 41>>    \* "зелён(ый|ая)"
     , <<1077, 1105>>    \* "её"
    >>

\* the end of the token of self.splitter, r'(\s+|\w+|\W+|\S+)', that starts
\* at index i: a run of whitespace, else a run of \w, else a run of \W (which
\* takes whitespace too); \S+ is never reached
TokenEnd(s, i) ==
    LET stop == IF isspace(s[i]) THEN {m \in i..Len(s) : ~isspace(s[m])}
                ELSE IF IsWordChar(s[i]) THEN {m \in i..Len(s) : ~IsWordChar(s[m])}
                ELSE {m \in i..Len(s) : IsWordChar(s[m])}
    IN IF stop = {} THEN Len(s) ELSE Min(stop) - 1

\* self.splitter.findall(text) from index i on
RECURSIVE splitter_findall(_, _)
splitter_findall(s, i) ==
    IF i > Len(s) THEN <<>>
    ELSE <<SubSeq(s, i, TokenEnd(s, i))>> \o splitter_findall(s, TokenEnd(s, i) + 1)

str_lower(s) == [i \in 1..Len(s) |-> lower(s[i])]
str_isalpha(s) == s # <<>> /\ \A i \in 1..Len(s) : isalpha(s[i])
EndsWith(s, suffix) ==
    Len(s) >= Len(suffix) /\ SubSeq(s, Len(s) - Len(suffix) + 1, Len(s)) = suffix

\* re.sub(r'е([^ё]*)$', r'ё\1', word): the leftmost "е" with no "ё" after it
\* becomes "ё"
SubRootYe(word) ==
    LET at == {i \in 1..Len(word) :
                  word[i] = YE_LOWER /\ \A j \in (i + 1)..Len(word) : word[j] # YO_LOWER}
    IN IF at = {} THEN word ELSE [word EXCEPT ![Min(at)] = YO_LOWER]

\* Yoficator._apply_additional_rules
_apply_additional_rules(word) ==
    IF word = <<>> \/ ~str_isalpha(word) THEN word
    ELSE IF str_lower(word) = <<1090, 1077, 1083, 1082, 1072>> THEN replace(word, 1, <<YE_LOWER>>, <<YO_LOWER>>)       \* 1. "телка"
    ELSE IF str_lower(word) = <<1086, 1089, 1077, 1083>> THEN replace(word, 1, <<YE_LOWER>>, <<YO_LOWER>>)        \* 2. "осел"
    ELSE IF str_lower(word) = <<1077, 1097, 1077>> THEN <<1077, 1097, 1105>>                                \* 3. "еще" -> "ещё"
    ELSE IF str_lower(word) = <<1077, 1077>> THEN <<1077, 1105>>                                  \* 4. "ее" -> "её"
    ELSE IF str_lower(word) = <<1087, 1088, 1086, 1080, 1079, 1085, 1077, 1089>>
         THEN replace(word, 1, <<YE_LOWER>>, <<YO_LOWER>>)                                                    \* 5. "произнес"
    ELSE IF /\ EndsWith(str_lower(word), <<1077, 1083>>) /\ Len(word) > 3                               \* 6. "...ел"
            \* exceptions: "медведь", "привет", "как", "дела", "удел", "предел", "умел", "смел", "дела"
            /\ str_lower(word) \notin {<<1084, 1077, 1076, 1074, 1077, 1076, 1100>>, <<1087, 1088, 1080, 1074, 1077, 1090>>, <<1082, 1072, 1082>>, <<1076, 1077, 1083, 1072>>, <<1091, 1076, 1077, 1083>>, <<1087, 1088, 1077, 1076, 1077, 1083>>, <<1091, 1084, 1077, 1083>>, <<1089, 1084, 1077, 1083>>, <<1076, 1077, 1083, 1072>>}
         THEN replace(word, 1, <<1077, 1083>>, <<1105, 1083>>)
    ELSE IF /\ EndsWith(str_lower(word), <<1072>>)                                                 \* 7. "...е...а"
            /\ Contains(SubSeq(str_lower(word), 1, Len(word) - 1), YE_LOWER)
            \* exceptions: "телка", "щелка", "мелка", "желтка", "дела"
            /\ str_lower(word) \notin {<<1090, 1077, 1083, 1082, 1072>>, <<1097, 1077, 1083, 1082, 1072>>, <<1084, 1077, 1083, 1082, 1072>>, <<1078, 1077, 1083, 1090, 1082, 1072>>, <<1076, 1077, 1083, 1072>>}
         THEN SubRootYe(word)
    ELSE word

\* yoficate with text.split() for the tokens and ' '.join for the result
yoficate_split_join(text, dictionary) ==
    IF DOMAIN dictionary = {} THEN text
    ELSE LET tokens == split(text)
             result == [n \in 1..Len(tokens) |->
                           IF tokens[n] \in DOMAIN dictionary THEN dictionary[tokens[n]]
                           ELSE _apply_additional_rules(tokens[n])]
         IN join(<<SP>>, result)

\* yoficate without its first test, "if not self.dictionary: return text"
yoficate_without_guard(text, dictionary) ==
    LET tokens == splitter_findall(text, 1)
        result == [n \in 1..Len(tokens) |->
                      IF tokens[n] \in DOMAIN dictionary THEN dictionary[tokens[n]]
                      ELSE _apply_additional_rules(tokens[n])]
    IN join(<<>>, result)

\* Yoficator.yoficate with self.dictionary = dictionary
yoficate(text, dictionary) ==
    IF DOMAIN dictionary = {} THEN text
    ELSE LET tokens == splitter_findall(text, 1)
             result == [n \in 1..Len(tokens) |->
                           IF tokens[n] \in DOMAIN dictionary THEN dictionary[tokens[n]]
                           ELSE _apply_additional_rules(tokens[n])]
         IN join(<<>>, result)

(***************************************************************************)
(* The accent component (RUAccent, outside the sources)                    *)
(***************************************************************************)
\* What accentizer.process_all(text) / accentizer.process(text) may return:
\* the text as it is, the text with a stress mark "+", the text without its
\* last character, the text with a trailing space, a blank and the empty
\* string. The component is opaque to the pipeline, which relies on none of
\* these.
RUAccentOutputs(s) ==
    { s,
      SubSeq(s, 1, 1) \o <<43>> \o SubSeq(s, 2, Len(s)),
      SubSeq(s, 1, Len(s) - 1),
      s \o <<SP>>,
      <<SP>>,
      <<>> }

\* add_accents returning "" where it has to return the text: after a call
\* that raised, and for an object with neither method
add_accents_failure_empty(s, accentizer) ==
    IF accentizer = "None" \/ strip(s) = <<>> THEN {[returns |-> s, except |-> FALSE]}
    ELSE IF accentizer \in {"process_all", "process"}
    THEN {[returns |-> v, except |-> FALSE] : v \in RUAccentOutputs(s)}
             \cup {[returns |-> <<>>, except |-> TRUE]}
    ELSE {[returns |-> <<>>, except |-> FALSE]}

\* MultilingualTTS.add_accents / RussianTTS.add_accents: what it may return,
\* and whether the "except Exception" was entered on the way. accentizer is
\* "None" (not loaded), or names what the loaded object offers:
\* "process_all", "process" or "neither". The call of the component returns
\* one of RUAccentOutputs or raises; a call that raises is caught and the
\* text is returned.
add_accents(s, accentizer) ==
    IF accentizer = "None" \/ strip(s) = <<>> THEN {[returns |-> s, except |-> FALSE]}
    ELSE IF accentizer \in {"process_all", "process"}
    THEN {[returns |-> v, except |-> FALSE] : v \in RUAccentOutputs(s)}
             \cup {[returns |-> s, except |-> TRUE]}
    ELSE {[returns |-> s, except |-> FALSE]}

(***************************************************************************)
(* normalize_text                                                          *)
(***************************************************************************)
_preprocess_gpt_issues(s) == s

\* MultilingualTTS.normalize_text: outcomes is what it may return, and whether
\* the "except Exception" around yoficate_text was entered on the way (then it
\* returns the text before yofication); fired is what the abbreviation loop
\* substituted
normalize_text(s, language, dictionary) ==
    IF strip(s) = <<>> THEN [outcomes |-> {[returns |-> s, except |-> FALSE]}, fired |-> {}]
    ELSE LET preprocessed_text == _preprocess_gpt_issues(s)
             normalized == NumberConversion(preprocessed_text, language)
         IN [outcomes |-> IF language = "russian"
                          THEN {[returns |-> yoficate(normalized.out, dictionary),
                                 except |-> FALSE],
                                [returns |-> normalized.out, except |-> TRUE]}
                          ELSE {[returns |-> normalized.out, except |-> FALSE]},
             fired |-> normalized.fired]

\* TerminalPunctuation with the appended period left out
TerminalPunctuationWithoutPeriod(s) == IF s = <<>> THEN s ELSE rstrip(s)

\* the closing step of preprocess_text_for_tts: rstrip, then "." unless the
\* text ends in ".", "!" or "?"
TerminalPunctuation(s) ==
    IF s = <<>> THEN s
    ELSE IF EndsWithTerminal(rstrip(s)) THEN rstrip(s)
    ELSE rstrip(s) \o <<DOT>>

(***************************************************************************)
(* ProsodyHeuristic (in synthesize_speech); a rate is held in tenths       *)
(***************************************************************************)
length_without_spaces(s) == Len(RemoveSpaces(s))

\* AutoSpeed with "<" in place of every "<="
AutoSpeedStrict(s) ==
    IF length_without_spaces(s) < 3 THEN 1
    ELSE IF length_without_spaces(s) < 8 THEN 3
    ELSE IF length_without_spaces(s) < 18 THEN 6
    ELSE IF length_without_spaces(s) < 35 THEN 8
    ELSE IF length_without_spaces(s) < 45 THEN 9
    ELSE 10

AutoSpeed(s) ==
    IF length_without_spaces(s) <= 3 THEN 1          \* 0.1
    ELSE IF length_without_spaces(s) <= 8 THEN 3     \* 0.3
    ELSE IF length_without_spaces(s) <= 18 THEN 6    \* 0.6
    ELSE IF length_without_spaces(s) <= 35 THEN 8    \* 0.8
    ELSE IF length_without_spaces(s) <= 45 THEN 9    \* 0.9
    ELSE 10                                          \* 1.0

AutoNfeStep(s) == IF length_without_spaces(s) > 120 THEN 18 ELSE 26

\* ---- state machine ----
(***************************************************************************)
(* State                                                                   *)
(***************************************************************************)
VARIABLES
    impl,             \* the class of the object: "MultilingualTTS", "RussianTTS", "CorrectTTS"
    enable_accent,    \* self.enable_accent
    accentizer,       \* self.accentizer: "None", or what the object offers
    russian_tts,      \* self.russian_tts is loaded (self.f5tts of CorrectTTS)
    dictionary,       \* yoficator.dictionary of the module-level Yoficator
    attributes,       \* the attributes of the object set after construction: self._russian_*
    threads,          \* the calls of preprocess_text_for_tts running on the object at once
    method,           \* the method that was called
    text,             \* its argument text
    kwargs,           \* the speed and nfe_step the caller passed: <<>> is None
    speed,            \* argument and local speed of synthesize_speech, in tenths: <<>> is None
    nfe_step,         \* argument and local nfe_step of synthesize_speech: <<>> is None
    pc,               \* the position in the called method
    processed_text,   \* the local processed_text; the returned text of a text method
    language,         \* the local language; the argument or result of the language methods
    stages,           \* the stages of preprocess_text_for_tts carried out so far
    fired,            \* what the abbreviation loop substituted (see Fired)
    result,           \* what synthesize_speech returned: "None" or "path"; "" before
    infer_calls,      \* the calls of tts_model.infer made, with their parameters
    written,          \* the number of files written by sf.write
    web               \* the web interface object: its fields and its last request

vars == <<impl, enable_accent, accentizer, russian_tts, dictionary, attributes, threads, method, text, kwargs,
          speed, nfe_step, pc, processed_text, language, stages, fired, result, infer_calls, written, web>>

object == <<impl, enable_accent, accentizer, russian_tts, dictionary>>
request == <<method, text, kwargs>>

(***************************************************************************)
(* preprocess_text_for_tts, one action for each step                       *)
(***************************************************************************)
Return(s) == /\ processed_text' = s
             /\ pc' = "preprocessed"

\* processed_text = text.strip(); if not processed_text: return ""
Strip ==
    /\ pc = "preprocess_text_for_tts"
    /\ stages' = Append(stages, "strip")
    /\ IF strip(text) = <<>>
       THEN Return(<<>>)
       ELSE /\ processed_text' = strip(text)
            /\ pc' = IF impl = "CorrectTTS" THEN "split_join" ELSE "_is_only_symbols"
    /\ UNCHANGED <<web, object, attributes, threads, request, speed, nfe_step, language, fired, result, infer_calls, written>>

\* if self._is_only_symbols(processed_text): return ""
SymbolCheck ==
    /\ pc = "_is_only_symbols"
    /\ stages' = Append(stages, "_is_only_symbols")
    /\ IF _is_only_symbols(processed_text)
       THEN Return(<<>>)
       ELSE /\ pc' = "_remove_long_symbol_sequences"
            /\ UNCHANGED processed_text
    /\ UNCHANGED <<web, object, attributes, threads, request, speed, nfe_step, language, fired, result, infer_calls, written>>

\* processed_text = self._remove_long_symbol_sequences(processed_text)
\* if not processed_text.strip(): return ""
RepeatCollapse ==
    /\ pc = "_remove_long_symbol_sequences"
    /\ stages' = Append(stages, "_remove_long_symbol_sequences")
    /\ IF strip(_remove_long_symbol_sequences(processed_text)) = <<>>
       THEN Return(<<>>)
       ELSE /\ processed_text' = _remove_long_symbol_sequences(processed_text)
            /\ pc' = "detect_language"
    /\ UNCHANGED <<web, object, attributes, threads, request, speed, nfe_step, language, fired, result, infer_calls, written>>

\* DetectLanguage on the stripped input in place of the collapsed text
DetectLanguageOfInput ==
    /\ pc = "detect_language"
    /\ stages' = Append(stages, "detect_language")
    /\ language' = detect_language(strip(text))
    /\ pc' = "split_join"
    /\ UNCHANGED <<web, object, attributes, threads, request, speed, nfe_step, processed_text, fired,
                   result, infer_calls, written>>

\* language = self.detect_language(processed_text)
DetectLanguage ==
    /\ pc = "detect_language"
    /\ stages' = Append(stages, "detect_language")
    /\ language' = detect_language(processed_text)
    /\ pc' = "split_join"
    /\ UNCHANGED <<web, object, attributes, threads, request, speed, nfe_step, processed_text, fired, result, infer_calls, written>>

\* processed_text = ' '.join(processed_text.split())
SplitJoin ==
    /\ pc = "split_join"
    /\ stages' = Append(stages, "split_join")
    /\ processed_text' = join(<<SP>>, split(processed_text))
    /\ pc' = IF impl = "MultilingualTTS" THEN "normalize_text"
             ELSE IF impl = "RussianTTS" THEN "yoficate_text"
             ELSE "punctuation"
    /\ UNCHANGED <<web, object, attributes, threads, request, speed, nfe_step, language, fired, result, infer_calls, written>>

\* MultilingualTTS: processed_text = self.normalize_text(processed_text, language)
NormalizeText ==
    /\ pc = "normalize_text"
    /\ LET normalized == normalize_text(processed_text, language, dictionary)
       IN /\ \E outcome \in normalized.outcomes :
                 /\ processed_text' = outcome.returns
                 /\ stages' = IF outcome.except
                              THEN stages \o <<"normalize_text", "yoficate_text raised">>
                              ELSE Append(stages, "normalize_text")
          /\ fired' = normalized.fired
    /\ attributes' = IF strip(processed_text) # <<>> /\ language = "russian"
                     THEN RussianTables ELSE attributes
    /\ pc' = "add_accents"
    /\ UNCHANGED <<web, object, threads, request, speed, nfe_step, language, result, infer_calls, written>>

\* RussianTTS: if language == "russian": try: processed_text = yoficate_text(processed_text)
YoficateText ==
    /\ pc = "yoficate_text"
    /\ stages' = Append(stages, "yoficate_text")
    /\ \E yo_raises \in BOOLEAN :
           processed_text' = IF language = "russian" /\ ~yo_raises
                             THEN yoficate(processed_text, dictionary)
                             ELSE processed_text
    /\ pc' = "add_accents"
    /\ UNCHANGED <<web, object, attributes, threads, request, speed, nfe_step, language, fired, result, infer_calls, written>>

\* if language == "russian" and self.enable_accent:
\*     processed_text = self.add_accents(processed_text)
AddAccents ==
    /\ pc = "add_accents"
    /\ IF language = "russian" /\ enable_accent
       THEN \E accented \in add_accents(processed_text, accentizer) :
                /\ processed_text' = accented.returns
                /\ stages' = IF accented.except
                             THEN stages \o <<"add_accents", "except Exception">>
                             ELSE Append(stages, "add_accents")
       ELSE UNCHANGED <<stages, processed_text>>
    /\ pc' = "punctuation"
    /\ UNCHANGED <<web, object, attributes, threads, request, speed, nfe_step, language, fired, result, infer_calls, written>>

\* if processed_text: rstrip, "." unless it ends in ".", "!" or "?"; return.
\* CorrectTTS has no rstrip, and leaves the text as it is where the others do.
Punctuation ==
    /\ pc = "punctuation"
    /\ stages' = Append(stages, "punctuation")
    /\ Return(IF impl = "CorrectTTS"
              THEN IF processed_text # <<>> /\ ~EndsWithTerminal(processed_text)
                   THEN processed_text \o <<DOT>>
                   ELSE processed_text
              ELSE TerminalPunctuation(processed_text))
    /\ UNCHANGED <<web, object, attributes, threads, request, speed, nfe_step, language, fired, result, infer_calls, written>>

(***************************************************************************)
(* synthesize_speech of MultilingualTTS and RussianTTS                     *)
(***************************************************************************)
\* processed_text = self.preprocess_text_for_tts(text)
CallPreprocess ==
    /\ pc = "synthesize_speech"
    /\ pc' = "preprocess_text_for_tts"
    /\ UNCHANGED <<web, object, attributes, threads, request, speed, nfe_step, processed_text, language, stages, fired,
                   result, infer_calls, written>>

\* CheckEmpty with the "return None" of the empty text left out
CheckEmptyWithoutReturn ==
    /\ pc = "preprocessed"
    /\ method = "synthesize_speech"
    /\ language' = detect_language(processed_text)
    /\ pc' = "prosody"
    /\ UNCHANGED <<web, object, attributes, threads, request, speed, nfe_step, processed_text, stages, fired, result,
                   infer_calls, written>>

\* CheckEmpty with a rule of its own for the language: a tie is "english"
CheckEmptyTieEnglish ==
    /\ pc = "preprocessed"
    /\ method = "synthesize_speech"
    /\ IF processed_text = <<>>
       THEN /\ result' = "None"
            /\ pc' = "done"
            /\ UNCHANGED language
       ELSE /\ language' = detect_language_tie_english(processed_text)
            /\ pc' = "prosody"
            /\ UNCHANGED result
    /\ UNCHANGED <<web, object, attributes, threads, request, speed, nfe_step, processed_text, stages,
                   fired, infer_calls, written>>

\* if not processed_text: return None
\* language = self.detect_language(processed_text)
CheckEmpty ==
    /\ pc = "preprocessed"
    /\ method = "synthesize_speech"
    /\ IF processed_text = <<>>
       THEN /\ result' = "None"
            /\ pc' = "done"
            /\ UNCHANGED language
       ELSE /\ language' = detect_language(processed_text)
            /\ pc' = "prosody"
            /\ UNCHANGED result
    /\ UNCHANGED <<web, object, attributes, threads, request, speed, nfe_step, processed_text, stages, fired,
                   infer_calls, written>>

\* Prosody with the two "is None" tests left out
ProsodyAlwaysAutomatic ==
    /\ pc = "prosody"
    /\ speed' = <<AutoSpeed(processed_text)>>
    /\ nfe_step' = <<AutoNfeStep(processed_text)>>
    /\ IF russian_tts
       THEN pc' = "infer" /\ UNCHANGED result
       ELSE pc' = "done" /\ result' = "None"
    /\ UNCHANGED <<web, object, attributes, threads, request, processed_text, language, stages, fired, infer_calls, written>>

\* if speed is None: ...; if nfe_step is None: ...
\* tts_model = self.russian_tts; if not tts_model: return None
Prosody ==
    /\ pc = "prosody"
    /\ speed' = IF speed = <<>> THEN <<AutoSpeed(processed_text)>> ELSE speed
    /\ nfe_step' = IF nfe_step = <<>> THEN <<AutoNfeStep(processed_text)>> ELSE nfe_step
    /\ IF russian_tts
       THEN pc' = "infer" /\ UNCHANGED result
       ELSE pc' = "done" /\ result' = "None"
    /\ UNCHANGED <<web, object, attributes, threads, request, processed_text, language, stages, fired, infer_calls, written>>

\* wav, sr, spect = tts_model.infer(**infer_params); an exception of the
\* engine is caught by the "except Exception" of synthesize_speech
Infer ==
    /\ pc = "infer"
    /\ infer_calls' = Append(infer_calls, [gen_text |-> processed_text,
                                           speed |-> speed[1], nfe_step |-> nfe_step[1]])
    /\ \E raises \in BOOLEAN :
           IF raises THEN pc' = "done" /\ result' = "None"
           ELSE pc' = "write" /\ UNCHANGED result
    /\ UNCHANGED <<web, object, attributes, threads, request, speed, nfe_step, processed_text, language, stages, fired,
                   written>>

\* sf.write(str(output_path), wav_padded, sr); return str(output_path)
Write ==
    /\ pc = "write"
    /\ \E raises \in BOOLEAN :
           IF raises THEN result' = "None" /\ UNCHANGED written
           ELSE result' = "path" /\ written' = written + 1
    /\ pc' = "done"
    /\ UNCHANGED <<web, object, attributes, threads, request, speed, nfe_step, processed_text, language, stages, fired,
                   infer_calls>>

Next ==
    \/ CallPreprocess
    \/ Strip
    \/ SymbolCheck
    \/ RepeatCollapse
    \/ DetectLanguage
    \/ SplitJoin
    \/ NormalizeText
    \/ YoficateText
    \/ AddAccents
    \/ Punctuation
    \/ CheckEmpty
    \/ Prosody
    \/ Infer
    \/ Write

(***************************************************************************)
(* Methods called on their own                                             *)
(***************************************************************************)
\* self.detect_language(text)
CallDetectLanguage ==
    /\ pc = "call" /\ method = "detect_language"
    /\ language' = detect_language(text)
    /\ pc' = "returned"
    /\ UNCHANGED <<web, object, attributes, threads, request, speed, nfe_step, processed_text, stages, fired, result,
                   infer_calls, written>>

\* self._remove_long_symbol_sequences(text)
CallRemoveLong ==
    /\ pc = "call" /\ method = "_remove_long_symbol_sequences"
    /\ processed_text' = _remove_long_symbol_sequences(text)
    /\ pc' = "returned"
    /\ UNCHANGED <<web, object, attributes, threads, request, speed, nfe_step, language, stages, fired, result,
                   infer_calls, written>>

\* self._simple_number_conversion(text, language)
CallNumberConversion ==
    /\ pc = "call" /\ method = "_simple_number_conversion"
    /\ LET converted == NumberConversion(text, language)
       IN /\ processed_text' = converted.out
          /\ fired' = converted.fired
    /\ attributes' = IF language = "russian" THEN RussianTables ELSE attributes
    /\ pc' = "returned"
    /\ UNCHANGED <<web, object, threads, request, speed, nfe_step, language, stages, result, infer_calls,
                   written>>

NextDetect == CallDetectLanguage
NextCollapse == CallRemoveLong
NextConvert == CallNumberConversion

(***************************************************************************)
(* Initial states                                                          *)
(***************************************************************************)
\* the file python-yoficator/yo.dat as the module-level Yoficator() finds it
YoDatFiles == {[found |-> FALSE, lines |-> <<>>], [found |-> TRUE, lines |-> yo_dat_lines]}

\* __init__ sets none of self._russian_units, _russian_tens, _russian_hundreds
NoAttributes == [name \in {} |-> <<>>]

\* speed: float = None, nfe_step: int = None
Defaults == [speed |-> <<>>, nfe_step |-> <<>>]

\* AdvancedTTSWebInterface.__init__: self.tts = None (here <<>>),
\* current_model_type "base", current_accent_enabled True. asked, reply and
\* handed record the last request: its settings, what it answered, and
\* whether it called synthesize_speech of self.tts.
AdvancedTTSWebInterface ==
    [interface |-> "AdvancedTTSWebInterface", tts |-> <<>>, current_model_type |-> "base",
     current_accent_enabled |-> TRUE, asked |-> <<>>, reply |-> "", handed |-> FALSE]

\* CorrectTTSWebInterface.__init__
CorrectTTSWebInterface ==
    [interface |-> "CorrectTTSWebInterface", tts |-> <<>>, current_model_type |-> "base",
     asked |-> <<>>, reply |-> "", handed |-> FALSE]

\* the object after __init__, the module-level yoficator, and a web
\* interface that has served no request
Constructed(cfg) ==
    /\ web = AdvancedTTSWebInterface
    /\ impl = cfg.impl
    /\ enable_accent = cfg.enable_accent
    /\ accentizer = cfg.accentizer
    /\ russian_tts = cfg.russian_tts
    /\ dictionary = _load_dictionary(cfg.yo_dat)
    /\ attributes = NoAttributes

\* a constructed object and a call of one of its methods with text t and the
\* keyword arguments kw
CalledWith(cfg, m, t, kw) ==
    /\ Constructed(cfg)
    /\ threads = <<>>
    /\ method = m
    /\ text = t
    /\ kwargs = kw
    /\ speed = kw.speed
    /\ nfe_step = kw.nfe_step
    /\ processed_text = <<>>
    /\ stages = <<>>
    /\ fired = {}
    /\ result = ""
    /\ infer_calls = <<>>
    /\ written = 0

Called(cfg, m, t) == CalledWith(cfg, m, t, Defaults)

Config(i, e, a, r, y) ==
    [impl |-> i, enable_accent |-> e, accentizer |-> a, russian_tts |-> r,
     yo_dat |-> [found |-> y, lines |-> IF y THEN yo_dat_lines ELSE <<>>]]

\* __init__ leaves accentizer None unless enable_accent, and None when RUAccent
\* fails to load; _load_russian_model leaves russian_tts None when it fails
Configs ==
    { Config("MultilingualTTS", FALSE, "None", TRUE, TRUE),
      Config("MultilingualTTS", TRUE, "process_all", TRUE, TRUE),
      Config("MultilingualTTS", TRUE, "process", TRUE, FALSE),
      Config("MultilingualTTS", TRUE, "neither", FALSE, TRUE),
      Config("MultilingualTTS", TRUE, "None", TRUE, FALSE),
      Config("RussianTTS", TRUE, "process_all", TRUE, TRUE),
      Config("CorrectTTS", FALSE, "None", TRUE, FALSE) }

DefaultConfig == Config("MultilingualTTS", FALSE, "None", TRUE, TRUE)

\* Texts made of runs of one character: up to MaxRuns runs, each of a length
\* of RunLengths (neighbouring runs of one character make a longer run)
MaxRuns == 2
RunLengths == {1, 4}
TextAlphabet == {YE_LOWER, 107, 49, SP, BANG, NL}    \* "е", "k", "1", " ", "!", "\n"

RunOf(c, n) == [i \in 1..n |-> c]
Runs == {RunOf(c, n) : c \in TextAlphabet, n \in RunLengths}

RECURSIVE Concat(_)
Concat(parts) == IF parts = <<>> THEN <<>> ELSE Head(parts) \o Concat(Tail(parts))

TextInputs == {Concat(rs) : rs \in UNION {[1..n -> Runs] : n \in 0..MaxRuns}}

Init ==
    \E cfg \in Configs, t \in TextInputs :
        /\ Called(cfg, IF cfg.impl = "CorrectTTS" THEN "preprocess_text_for_tts"
                       ELSE "synthesize_speech", t)
        /\ pc = method
        /\ language = ""

Spec == Init /\ [][Next]_vars

(***************************************************************************)
(* detect_language called on its own, on every text of up to MaxDetectLen  *)
(* characters of DetectAlphabet                                            *)
(***************************************************************************)
MaxDetectLen == 3
\* "а", "Я", "ё", "Ё", U+1C80, "z", "A", U+017F, "5", "!", " "
DetectAlphabet == {1072, 1071, YO_LOWER, YO_UPPER, 7296, 122, 65, 383, 53, BANG, SP}
DetectInputs == UNION {[1..n -> DetectAlphabet] : n \in 0..MaxDetectLen}

InitDetect ==
    \E t \in DetectInputs :
        /\ Called(DefaultConfig, "detect_language", t)
        /\ pc = "call"
        /\ language = ""

SpecDetect == InitDetect /\ [][NextDetect]_vars

(***************************************************************************)
(* _remove_long_symbol_sequences called on its own, on the texts of up to  *)
(* three runs of up to MaxRunLen equal characters of CollapseAlphabet      *)
(***************************************************************************)
MaxRunLen == 5
CollapseAlphabet == {107, 49, BANG, SP, NL}    \* "k", "1", "!", " ", "\n"
CollapseRuns == {RunOf(c, n) : c \in CollapseAlphabet, n \in 1..MaxRunLen}
CollapseInputs == {Concat(rs) : rs \in UNION {[1..n -> CollapseRuns] : n \in 0..3}}

InitCollapse ==
    \E t \in CollapseInputs :
        /\ Called(DefaultConfig, "_remove_long_symbol_sequences", t)
        /\ pc = "call"
        /\ language = ""

SpecCollapse == InitCollapse /\ [][NextCollapse]_vars

(***************************************************************************)
(* The pipeline on the texts of a run of "k" and a run of "е", of up to    *)
(* MaxRunLen + 1 characters each: the letter counts before and after the   *)
(* repeat collapse differ                                                  *)
(***************************************************************************)
RoutingInputs == {RunOf(107, a) \o RunOf(YE_LOWER, b) : a, b \in 0..(MaxRunLen + 1)}

InitRouting ==
    \E cfg \in Configs, t \in RoutingInputs :
        /\ Called(cfg, IF cfg.impl = "CorrectTTS" THEN "preprocess_text_for_tts"
                       ELSE "synthesize_speech", t)
        /\ pc = method
        /\ language = ""

SpecRouting == InitRouting /\ [][Next]_vars

(***************************************************************************)
(* The pipeline on the texts of up to MaxTokens words of MixedWords, which *)
(* mix Latin and Cyrillic letters, a Latin abbreviation and numerals       *)
(***************************************************************************)
MaxTokens == 3
\* "EU", "k", "ее", "е", "5", "12"
MixedWords == {<<69, 85>>, <<107>>, <<YE_LOWER, YE_LOWER>>, <<YE_LOWER>>, <<53>>, <<49, 50>>}
MixedInputs == {join(<<SP>>, ws) : ws \in UNION {[1..n -> MixedWords] : n \in 0..MaxTokens}}

InitMixed ==
    \E cfg \in Configs, t \in MixedInputs :
        /\ Called(cfg, IF cfg.impl = "CorrectTTS" THEN "preprocess_text_for_tts"
                       ELSE "synthesize_speech", t)
        /\ pc = method
        /\ language = ""

SpecMixed == InitMixed /\ [][Next]_vars

(***************************************************************************)
(* The sanitizing part of preprocess_text_for_tts (up to the language      *)
(* detection) on the same texts                                            *)
(***************************************************************************)
NextSanitize == Strip \/ SymbolCheck \/ RepeatCollapse

InitSanitize ==
    \E t \in CollapseInputs :
        /\ Called(DefaultConfig, "preprocess_text_for_tts", t)
        /\ pc = "preprocess_text_for_tts"
        /\ language = ""

SpecSanitize == InitSanitize /\ [][NextSanitize]_vars

(***************************************************************************)
(* _simple_number_conversion(text, "russian") called on its own, on        *)
(* numerals                                                                *)
(***************************************************************************)
MaxLeadingZeros == 2
NumberSample == {0, 1, 2, 4, 5, 11, 21, 999}
\* every count of thousands with a sample of remainders, and every
\* remainder with a sample of counts of thousands
Numbers ==
    {t * 1000 + r : t \in 0..999, r \in {0, 1, 20, 999}}
        \cup {t * 1000 + r : t \in NumberSample, r \in 0..999}
\* numerals of 1 000 000 and more
LargeNumbers == {1000000, 1000001, 1234567, 9999999, 12345678}
\* what may stand before and after a numeral: nothing, a space, a bracket or
\* a full stop (the numeral is word-bounded), a letter or "_" (it is not)
Before == {<<>>, <<1074, SP>>, <<LPAREN>>, <<1093>>, <<UNDERSCORE>>}    \* "", "в ", "(", "х", "_"
After == {<<>>, <<SP, 1075, DOT>>, <<RPAREN>>, <<DOT>>, <<1093>>}       \* "", " г.", ")", ".", "х"

NumeralInputs ==
    {str(n) : n \in Numbers \cup LargeNumbers}
        \cup {b \o RunOf(48, z) \o str(n) \o a :
                 b \in Before, a \in After, z \in 0..MaxLeadingZeros,
                 n \in NumberSample \cup {1000 * m : m \in NumberSample} \cup {1000000}}

InitNumerals ==
    \E t \in NumeralInputs :
        /\ Called(DefaultConfig, "_simple_number_conversion", t)
        /\ pc = "call"
        /\ language = "russian"

SpecNumerals == InitNumerals /\ [][NextConvert]_vars

(***************************************************************************)
(* _simple_number_conversion(text, "english") called on its own, on every  *)
(* text of up to MaxDigits characters of "1", "0", "2", "k" and " "        *)
(***************************************************************************)
MaxDigits == 5
EnglishInputs == UNION {[1..n -> {49, 48, 50, 107, SP}] : n \in 0..MaxDigits}

InitEnglish ==
    \E t \in EnglishInputs :
        /\ Called(DefaultConfig, "_simple_number_conversion", t)
        /\ pc = "call"
        /\ language = "english"

SpecEnglish == InitEnglish /\ [][NextConvert]_vars

(***************************************************************************)
(* _simple_number_conversion(text, "russian") called on its own, on texts  *)
(* with abbreviations                                                      *)
(***************************************************************************)
MaxRepeat == 2
\* what may stand around an abbreviation: nothing, " ", ".", "х"
Around == {<<>>, <<SP>>, <<DOT>>, <<1093>>}
Keys == {abbreviations[i][1] : i \in 1..Len(abbreviations)}
DottedKeys == {k \in Keys : HasDot(k)}
str_upper(s) ==
    [i \in 1..Len(s) |->
        IF IsLatinLower(s[i]) \/ s[i] \in 1072..1103 THEN s[i] - 32
        ELSE IF s[i] = YO_LOWER THEN YO_UPPER
        ELSE s[i]]

RECURSIVE Repeat(_, _)
Repeat(s, n) == IF n = 0 THEN <<>> ELSE s \o Repeat(s, n - 1)

AbbreviationInputs ==
    \* a key, once or several times, with something before and after it
    {b \o Repeat(k \o a, n) : k \in Keys, b \in Around, a \in Around, n \in 1..MaxRepeat}
    \* a key in capitals and in small letters
        \cup {b \o c \o a : c \in {str_upper(k) : k \in Keys} \cup {str_lower(k) : k \in Keys},
                            b \in {<<>>, <<1093>>}, a \in {<<>>, <<DOT>>}}
    \* two keys with a period, one after the other
        \cup {k1 \o a \o k2 : k1 \in DottedKeys, k2 \in DottedKeys, a \in {<<>>, <<SP>>}}

InitAbbreviations ==
    \E t \in AbbreviationInputs :
        /\ Called(DefaultConfig, "_simple_number_conversion", t)
        /\ pc = "call"
        /\ language = "russian"

SpecAbbreviations == InitAbbreviations /\ [][NextConvert]_vars

(***************************************************************************)
(* yoficator.yoficate(text) called on its own, on texts of up to MaxWords  *)
(* words, each followed by a separator                                     *)
(***************************************************************************)
\* yoficator.yoficate(text), that is yoficate_text(text)
CallYoficate ==
    /\ pc = "call" /\ method = "yoficate"
    /\ processed_text' = yoficate(text, dictionary)
    /\ pc' = "returned"
    /\ UNCHANGED <<web, object, attributes, threads, request, speed, nfe_step, language, stages, fired, result,
                   infer_calls, written>>

NextYoficate == CallYoficate

MaxWords == 2
\* "телка", "осел", "Еще", "ее", "произнес", "сидел", "белел", "умел",
\* "дела", "береза", "звезда", "щелка", "елка", "медом", "7сидел", "кот"
YoWords ==
    { <<1090, 1077, 1083, 1082, 1072>>,
      <<1086, 1089, 1077, 1083>>,
      <<1045, 1097, 1077>>,
      <<1077, 1077>>,
      <<1087, 1088, 1086, 1080, 1079, 1085, 1077, 1089>>,
      <<1089, 1080, 1076, 1077, 1083>>,
      <<1073, 1077, 1083, 1077, 1083>>,
      <<1091, 1084, 1077, 1083>>,
      <<1076, 1077, 1083, 1072>>,
      <<1073, 1077, 1088, 1077, 1079, 1072>>,
      <<1079, 1074, 1077, 1079, 1076, 1072>>,
      <<1097, 1077, 1083, 1082, 1072>>,
      <<1077, 1083, 1082, 1072>>,
      <<1084, 1077, 1076, 1086, 1084>>,
      <<55, 1089, 1080, 1076, 1077, 1083>>,
      <<1082, 1086, 1090>> }
YoSeparators == {<<SP>>, <<44, SP>>, <<NL>>}    \* " ", ", ", "\n"
YoUnits == {w \o sep : w \in YoWords, sep \in YoSeparators}
YoInputs == {Concat(us) : us \in UNION {[1..n -> YoUnits] : n \in 0..MaxWords}}

InitYoficate ==
    \E t \in YoInputs, found \in BOOLEAN :
        /\ Called(Config("MultilingualTTS", FALSE, "None", TRUE, found), "yoficate", t)
        /\ pc = "call"
        /\ language = ""

SpecYoficate == InitYoficate /\ [][NextYoficate]_vars

(***************************************************************************)
(* synthesize_speech on texts of up to MaxLetters letters, whose canonical *)
(* texts have the lengths on both sides of every threshold of the prosody  *)
(* heuristic, with and without an explicit speed and nfe_step              *)
(***************************************************************************)
MaxLetters == 129
\* the canonical text has one character more, the "." added at the end
LetterCounts == {0, 2, 3, 7, 8, 17, 18, 34, 35, 44, 45, 49, 119, 120, 129} \cap 0..MaxLetters
Syllable == <<1082, 1086, 1090>>    \* "кот"
Letters(n) == [i \in 1..n |-> Syllable[((i - 1) % 3) + 1]]
\* the n letters in words of eight
Words(n) == [p \in 1..(n + ((n - 1) \div 8)) |->
                IF p % 9 = 0 THEN SP ELSE Syllable[((p - (p \div 9) - 1) % 3) + 1]]
ProsodyInputs == {Letters(n) : n \in LetterCounts} \cup {Words(n) : n \in LetterCounts \ {0}}
Speeds == {<<>>, <<0>>, <<12>>}     \* None, 0.0, 1.2
NfeSteps == {<<>>, <<0>>, <<32>>}   \* None, 0, 32

InitProsody ==
    \E cfg \in Configs, t \in ProsodyInputs, sp \in Speeds, nfe \in NfeSteps :
        /\ CalledWith(cfg, IF cfg.impl = "CorrectTTS" THEN "preprocess_text_for_tts"
                            ELSE "synthesize_speech", t,
                       IF cfg.impl = "CorrectTTS" THEN Defaults
                       ELSE [speed |-> sp, nfe_step |-> nfe])
        /\ pc = method
        /\ language = ""

SpecProsody == InitProsody /\ [][Next]_vars

(***************************************************************************)
(* MaxThreads calls of preprocess_text_for_tts at once on one object with  *)
(* accent placement off. A step is a stretch of the call that reads or     *)
(* writes what the calls share (the attributes of the object, the          *)
(* dictionary of the module-level yoficator) at most once; the rest works   *)
(* on locals. An assignment binds the attribute to the finished dict.      *)
(***************************************************************************)
\* the tables convert_russian_number subscripts for num (for num < 100; the
\* three of them stand for a larger one)
TablesRead(num) ==
    IF num = 0 THEN {}
    ELSE IF num < 20 THEN {"_russian_units"}
    ELSE IF num < 100
    THEN {"_russian_tens"} \cup (IF num % 10 = 0 THEN {} ELSE {"_russian_units"})
    ELSE DOMAIN RussianTables

\* the start of the call up to the branch of _simple_number_conversion:
\* strip, symbol check, repeat collapse, detect_language, split and join
ThreadSanitize(t) ==
    /\ threads[t].pc = "preprocess_text_for_tts"
    /\ LET stripped == strip(threads[t].text)
           collapsed == _remove_long_symbol_sequences(stripped)
       IN threads' = [threads EXCEPT ![t] =
              IF stripped = <<>> \/ _is_only_symbols(stripped) \/ strip(collapsed) = <<>>
              THEN [@ EXCEPT !.pc = "returned", !.processed_text = <<>>]
              ELSE [@ EXCEPT !.language = detect_language(collapsed),
                             !.processed_text = join(<<SP>>, split(collapsed)),
                             !.pc = IF detect_language(collapsed) = "russian"
                                    THEN "_russian_units" ELSE "number_map"]]
    /\ UNCHANGED <<web, object, attributes, request, speed, nfe_step, pc, processed_text, language,
                   stages, fired, result, infer_calls, written>>

\* self._russian_units = {...}; self._russian_tens = {...};
\* self._russian_hundreds = {...}: one statement a step
ThreadAssign(t) ==
    /\ threads[t].pc \in DOMAIN RussianTables
    /\ attributes' = [name \in DOMAIN attributes \cup {threads[t].pc} |->
                         IF name = threads[t].pc THEN RussianTables[name] ELSE attributes[name]]
    /\ threads' = [threads EXCEPT ![t].pc =
                       CASE @ = "_russian_units" -> "_russian_tens"
                         [] @ = "_russian_tens" -> "_russian_hundreds"
                         [] @ = "_russian_hundreds" -> "abbreviations"]
    /\ UNCHANGED <<web, object, request, speed, nfe_step, pc, processed_text, language, stages, fired,
                   result, infer_calls, written>>

\* the abbreviation loop, on the local dict abbreviations
ThreadAbbreviations(t) ==
    /\ threads[t].pc = "abbreviations"
    /\ threads' = [threads EXCEPT ![t].pc = "replace_numbers",
                                  ![t].processed_text = Chars(ExpandAbbreviations(@).out)]
    /\ UNCHANGED <<web, object, attributes, request, speed, nfe_step, pc, processed_text, language,
                   stages, fired, result, infer_calls, written>>

\* result = re.sub(r'\b\d+\b', replace_numbers, result): the one numeral of
\* the text is looked up in the attributes as they are now; a table that is
\* not there raises inside convert_russian_number, whose "except:" returns
\* the digits
ThreadReplaceNumbers(t) ==
    /\ threads[t].pc = "replace_numbers"
    /\ LET s == threads[t].processed_text
           read == UNION {TablesRead(int(SubSeq(s, m, DigitRunEnd(s, m)))) :
                              m \in NumberMatchesFrom(s, 1)}
       IN threads' = [threads EXCEPT ![t] =
              IF \A name \in read : name \in DOMAIN attributes /\ attributes[name] = RussianTables[name]
              THEN [@ EXCEPT !.pc = "yoficate_text", !.processed_text = replace_numbers(s, 1)]
              ELSE [@ EXCEPT !.pc = "yoficate_text", !.except = TRUE]]
    /\ UNCHANGED <<web, object, attributes, request, speed, nfe_step, pc, processed_text, language,
                   stages, fired, result, infer_calls, written>>

\* the English branch, on the local dict number_map
ThreadNumberMap(t) ==
    /\ threads[t].pc = "number_map"
    /\ threads' = [threads EXCEPT ![t].pc = "punctuation",
                                  ![t].processed_text = NumberConversion(@, "english").out]
    /\ UNCHANGED <<web, object, attributes, request, speed, nfe_step, pc, processed_text, language,
                   stages, fired, result, infer_calls, written>>

\* yoficate_text(normalized_text), which reads yoficator.dictionary
ThreadYoficate(t) ==
    /\ threads[t].pc = "yoficate_text"
    /\ threads' = [threads EXCEPT ![t].pc = "punctuation",
                                  ![t].processed_text = yoficate(@, dictionary)]
    /\ UNCHANGED <<web, object, attributes, request, speed, nfe_step, pc, processed_text, language,
                   stages, fired, result, infer_calls, written>>

\* the closing step and the return
ThreadReturn(t) ==
    /\ threads[t].pc = "punctuation"
    /\ threads' = [threads EXCEPT ![t].pc = "returned",
                                  ![t].processed_text = TerminalPunctuation(@)]
    /\ UNCHANGED <<web, object, attributes, request, speed, nfe_step, pc, processed_text, language,
                   stages, fired, result, infer_calls, written>>

NextThreads ==
    \E t \in DOMAIN threads :
        \/ ThreadSanitize(t)
        \/ ThreadAssign(t)
        \/ ThreadAbbreviations(t)
        \/ ThreadReplaceNumbers(t)
        \/ ThreadNumberMap(t)
        \/ ThreadYoficate(t)
        \/ ThreadReturn(t)

MaxThreads == 2
\* "5", "ее 21", "k 7", "!!"
ThreadTexts == {<<53>>, <<YE_LOWER, YE_LOWER, SP, 50, 49>>, <<107, SP, 55>>, <<BANG, BANG>>}

InitThreads ==
    /\ Constructed(DefaultConfig)
    /\ method = "preprocess_text_for_tts" /\ text = <<>> /\ kwargs = Defaults
    /\ speed = <<>> /\ nfe_step = <<>> /\ pc = "threads" /\ processed_text = <<>>
    /\ language = "" /\ stages = <<>> /\ fired = {} /\ result = ""
    /\ infer_calls = <<>> /\ written = 0
    /\ \E texts \in [1..MaxThreads -> ThreadTexts] :
           threads = [t \in 1..MaxThreads |->
                         [pc |-> "preprocess_text_for_tts", text |-> texts[t], language |-> "",
                          processed_text |-> <<>>, except |-> FALSE]]

SpecThreads == InitThreads /\ [][NextThreads]_vars

(***************************************************************************)
(* The web interfaces: load_tts_model and synthesize_speech of             *)
(* AdvancedTTSWebInterface and CorrectTTSWebInterface                      *)
(***************************************************************************)
\* the choices of the form: gr.Radio model_choice, the accent checkbox, the
\* accent model size, the dictionary and tiny-mode checkboxes, the ODE
\* method and the EMA checkbox
ModelTypes == {"base", "accent"}
AccentModelSizes == {"tiny", "turbo2"}
OdeMethods == {"euler", "rk4"}
Settings ==
    [model_type : ModelTypes, enable_accent : BOOLEAN, accent_model_size : AccentModelSizes,
     accent_use_dictionary : BOOLEAN, accent_tiny_mode : BOOLEAN, ode_method : OdeMethods,
     use_ema : BOOLEAN]

\* AdvancedTTSWebInterface.load_tts_model on the interface w with the
\* settings s; raises: AdvancedTTS(...) raised. The instance is held as the
\* settings it was constructed with.
load_tts_model(w, s, raises) ==
    IF \/ w.tts = <<>>
       \/ w.current_model_type # s.model_type
       \/ w.current_accent_enabled # s.enable_accent
    THEN IF raises THEN [w EXCEPT !.reply = "load error"]
         ELSE [w EXCEPT !.tts = <<s>>, !.current_model_type = s.model_type,
                        !.current_accent_enabled = s.enable_accent, !.reply = "loaded"]
    ELSE [w EXCEPT !.reply = "already loaded"]

\* the button "load model" of the advanced interface
LoadTtsModel ==
    /\ pc = "web"
    /\ web.interface = "AdvancedTTSWebInterface"
    /\ \E s \in Settings, raises \in BOOLEAN :
           web' = [load_tts_model(web, s, raises) EXCEPT !.asked = <<s>>, !.handed = FALSE]
    /\ UNCHANGED <<object, attributes, threads, request, speed, nfe_step, pc, processed_text,
                   language, stages, fired, result, infer_calls, written>>

\* self.load_tts_model(model_type, enable_accent, "turbo2", True, False, "euler", True)
SynthesizeSettings(model_type, accent) ==
    [model_type |-> model_type, enable_accent |-> accent, accent_model_size |-> "turbo2",
     accent_use_dictionary |-> TRUE, accent_tiny_mode |-> FALSE, ode_method |-> "euler",
     use_ema |-> TRUE]

\* AdvancedTTSWebInterface.synthesize_speech; filled: text, ref_audio and
\* ref_text are all given; outcome: what self.tts.synthesize_speech did
WebSynthesizeSpeech ==
    /\ pc = "web"
    /\ web.interface = "AdvancedTTSWebInterface"
    /\ \E filled \in BOOLEAN, model_type \in ModelTypes, accent \in BOOLEAN, raises \in BOOLEAN,
          outcome \in {"synthesized", "synthesis failed", "synthesis error"} :
           LET asked == <<[model_type |-> model_type, enable_accent |-> accent]>>
               loaded == IF \/ web.tts = <<>>
                            \/ web.current_model_type # model_type
                            \/ web.current_accent_enabled # accent
                         THEN load_tts_model(web, SynthesizeSettings(model_type, accent), raises)
                         ELSE web
           IN web' = IF ~filled
                     THEN [web EXCEPT !.asked = asked, !.reply = "fill in", !.handed = FALSE]
                     ELSE IF loaded.tts = <<>>
                     THEN [loaded EXCEPT !.asked = asked, !.reply = "not loaded",
                                         !.handed = FALSE]
                     ELSE [loaded EXCEPT !.asked = asked, !.reply = outcome, !.handed = TRUE]
    /\ UNCHANGED <<object, attributes, threads, request, speed, nfe_step, pc, processed_text,
                   language, stages, fired, result, infer_calls, written>>

\* CorrectTTSWebInterface.load_tts_model; CorrectTTS(model_type) catches the
\* failure of its own loading and leaves f5tts None
load_correct_model(w, model_type, f5tts) ==
    IF w.tts = <<>> \/ w.current_model_type # model_type
    THEN [w EXCEPT !.tts = <<[model_type |-> model_type, f5tts |-> f5tts]>>,
                   !.current_model_type = model_type, !.reply = "loaded"]
    ELSE [w EXCEPT !.reply = "already loaded"]

\* the button "load model" of the simple interface
CorrectLoadTtsModel ==
    /\ pc = "web"
    /\ web.interface = "CorrectTTSWebInterface"
    /\ \E model_type \in ModelTypes, f5tts \in BOOLEAN :
           web' = [load_correct_model(web, model_type, f5tts)
                       EXCEPT !.asked = <<[model_type |-> model_type]>>, !.handed = FALSE]
    /\ UNCHANGED <<object, attributes, threads, request, speed, nfe_step, pc, processed_text,
                   language, stages, fired, result, infer_calls, written>>

\* CorrectTTSWebInterface.synthesize_speech
CorrectSynthesizeSpeech ==
    /\ pc = "web"
    /\ web.interface = "CorrectTTSWebInterface"
    /\ \E filled \in BOOLEAN, model_type \in ModelTypes, f5tts \in BOOLEAN,
          outcome \in {"synthesized", "synthesis failed", "synthesis error"} :
           LET asked == <<[model_type |-> model_type]>>
               loaded == IF web.tts = <<>> \/ web.current_model_type # model_type
                         THEN load_correct_model(web, model_type, f5tts)
                         ELSE web
           IN web' = IF ~filled
                     THEN [web EXCEPT !.asked = asked, !.reply = "fill in", !.handed = FALSE]
                     ELSE IF ~loaded.tts[1].f5tts
                     THEN [loaded EXCEPT !.asked = asked, !.reply = "not loaded",
                                         !.handed = FALSE]
                     ELSE [loaded EXCEPT !.asked = asked, !.reply = outcome, !.handed = TRUE]
    /\ UNCHANGED <<object, attributes, threads, request, speed, nfe_step, pc, processed_text,
                   language, stages, fired, result, infer_calls, written>>

NextWeb == LoadTtsModel \/ WebSynthesizeSpeech \/ CorrectLoadTtsModel \/ CorrectSynthesizeSpeech

InitWeb ==
    /\ web \in {AdvancedTTSWebInterface, CorrectTTSWebInterface}
    /\ impl = DefaultConfig.impl /\ enable_accent = DefaultConfig.enable_accent
    /\ accentizer = DefaultConfig.accentizer /\ russian_tts = DefaultConfig.russian_tts
    /\ dictionary = _load_dictionary(DefaultConfig.yo_dat) /\ attributes = NoAttributes
    /\ threads = <<>> /\ method = "" /\ text = <<>> /\ kwargs = Defaults
    /\ speed = <<>> /\ nfe_step = <<>> /\ pc = "web" /\ processed_text = <<>>
    /\ language = "" /\ stages = <<>> /\ fired = {} /\ result = ""
    /\ infer_calls = <<>> /\ written = 0

SpecWeb == InitWeb /\ [][NextWeb]_vars

(***************************************************************************)
(* Properties                                                              *)
(***************************************************************************)
Range(f) == {f[i] : i \in DOMAIN f}
HasAlphanumeric(s) == \E i \in 1..Len(s) : isalnum(s[i])
HasDigit(s) == \E i \in 1..Len(s) : isdigit(s[i])
AllDigits(s) == s # <<>> /\ \A i \in 1..Len(s) : isdigit(s[i])
Occurs(s, sub) == \E i \in 1..(Len(s) - Len(sub) + 1) : SubSeq(s, i, i + Len(sub) - 1) = sub

\* C1: the canonical text returned by preprocess_text_for_tts is empty or
\* ends in ".", "!" or "?", whatever the class, the branch, and the outcome
\* of yofication and of accent placement.
C1_CanonicalTextEmptyOrTerminated ==
    pc = "preprocessed" =>
        \/ processed_text = <<>>
        \/ processed_text[Len(processed_text)] \in {DOT, BANG, QUESTION}

\* a Russian text that went through accent placement and got its period
\* from the closing step
C1_PeriodAppendedAfterAccents ==
    /\ pc = "preprocessed"
    /\ impl = "MultilingualTTS"
    /\ "add_accents" \in Range(stages)
    /\ text # <<>> /\ text[Len(text)] = YE_LOWER
    /\ processed_text # <<>> /\ processed_text[Len(processed_text)] = DOT

\* C2: tts_model.infer is called only with a non-empty canonical text and a
\* loaded model; when preprocessing yields the empty text synthesize_speech
\* returns None, the engine is never called and no file is written.
C2_EngineOnlyWithTextAndModel ==
    /\ pc \in {"prosody", "infer", "write"} => processed_text # <<>>
    /\ pc \in {"infer", "write"} => russian_tts
    /\ infer_calls # <<>> => processed_text # <<>> /\ russian_tts
    /\ \A i \in 1..Len(infer_calls) : infer_calls[i].gen_text # <<>>
    /\ written > 0 => infer_calls # <<>>
    /\ (pc = "done" /\ processed_text = <<>>) =>
           result = "None" /\ infer_calls = <<>> /\ written = 0

\* synthesize_speech has returned None for a text of symbols only
C2_SymbolsOnlyReturnsNone ==
    /\ pc = "done" /\ method = "synthesize_speech"
    /\ text # <<>> /\ strip(text) # <<>>
    /\ processed_text = <<>>
    /\ result = "None" /\ infer_calls = <<>> /\ written = 0

\* the letters the statement of C3 counts: "а".."я", "ё", "a".."z", in
\* either case
CyrillicLetters == (1040..1103) \cup {YO_UPPER, YO_LOWER}
LatinLetters == (65..90) \cup (97..122)
\* the characters the two case-insensitive classes take in
CyrillicClass == CyrillicLetters \cup (7296..7302)
LatinClass == LatinLetters \cup {304, 305, 383, 8490}
CountOf(s, class) == Cardinality({i \in 1..Len(s) : s[i] \in class})

\* C3 as stated: with C the number of the letters а-я, ё and L the number
\* of the letters a-z of the text, in either case, detect_language returns
\* "english" exactly when L > C and "russian" otherwise.
C3_EnglishIffMoreLatinLetters ==
    pc = "returned" =>
        /\ language \in {"english", "russian"}
        /\ language = "english" <=> CountOf(text, LatinLetters) > CountOf(text, CyrillicLetters)

\* C3 amended: with C and L the numbers of characters the case-insensitive
\* classes [а-яё] and [a-z] match, which besides the letters in either case
\* are U+1C80..U+1C86 and U+0130, U+0131, U+017F, U+212A, detect_language
\* returns "english" exactly when L > C and "russian" otherwise.
C3_EnglishIffMoreLatinMatches ==
    pc = "returned" =>
        /\ language \in {"english", "russian"}
        /\ language = "english" <=> CountOf(text, LatinClass) > CountOf(text, CyrillicClass)

\* a tie with Cyrillic letters, one of the Latin matches being U+017F, has
\* been classified
C3_TieWithFoldedLetter ==
    /\ pc = "returned"
    /\ 383 \in Range(text)
    /\ CountOf(text, CyrillicClass) > 0
    /\ CountOf(text, LatinClass) = CountOf(text, CyrillicClass)
    /\ language = "russian"

LaterStages == {"_remove_long_symbol_sequences", "detect_language", "split_join",
                "normalize_text", "yoficate_text", "add_accents", "punctuation"}

\* C4: a text without an alphanumeric character gives the empty canonical
\* text and none of the stages after the symbol-only check runs on it; a
\* text with an alphanumeric character is never sent back by that check.
C4_SymbolOnlyRejectedBeforeLaterStages ==
    impl # "CorrectTTS" =>
        /\ ~HasAlphanumeric(text) =>
               /\ Range(stages) \cap LaterStages = {}
               /\ pc = "preprocessed" => processed_text = <<>>
        /\ (HasAlphanumeric(text) /\ pc = "preprocessed") =>
               stages[Len(stages)] # "_is_only_symbols"

\* a text of punctuation has been sent back by the symbol-only check
C4_PunctuationRejected ==
    /\ pc = "preprocessed"
    /\ text # <<>> /\ ~HasAlphanumeric(text)
    /\ stages = <<"strip", "_is_only_symbols">>
    /\ processed_text = <<>>

\* s with every character dropped that has three copies of itself just
\* before it: each run of four or more becomes three
RECURSIVE ThreeOfEach(_)
ThreeOfEach(s) ==
    IF s = <<>> THEN <<>>
    ELSE LET n == Len(s)
             front == ThreeOfEach(SubSeq(s, 1, n - 1))
         IN IF n > 3 /\ s[n - 1] = s[n] /\ s[n - 2] = s[n] /\ s[n - 3] = s[n]
            THEN front
            ELSE Append(front, s[n])

\* C5: _remove_long_symbol_sequences replaces each maximal run of four or
\* more identical characters, whatever the character, by three of them,
\* leaves shorter runs alone, and returns no run of four or more.
C5_EveryLongRunCollapsed ==
    pc = "returned" =>
        /\ processed_text = ThreeOfEach(text)
        /\ \A i \in 1..(Len(processed_text) - 3) :
               ~(\A j \in 1..3 : processed_text[i + j] = processed_text[i])

\* the start of each maximal run of digits of s, and the end of the run
DigitRunStarts(s) == {i \in 1..Len(s) : isdigit(s[i]) /\ (i = 1 \/ ~isdigit(s[i - 1]))}
DigitRunLast(s, i) == Max({j \in i..Len(s) : \A m \in i..j : isdigit(s[m])})
WordBounded(s, i) ==
    /\ i = 1 \/ ~IsWordChar(s[i - 1])
    /\ DigitRunLast(s, i) = Len(s) \/ ~IsWordChar(s[DigitRunLast(s, i) + 1])
Literal(s, i) == SubSeq(s, i, DigitRunLast(s, i))

\* C6: when every numeral of the text is a word-bounded token of a value up
\* to 999999, leading zeros or not, the Russian branch of
\* _simple_number_conversion returns a text without a digit (a missing
\* table key would bring the digits back).
C6_NumeralsBecomeWordsOnly ==
    (pc = "returned" /\ \A i \in DigitRunStarts(text) :
                            WordBounded(text, i) /\ int(Literal(text, i)) <= 999999)
        => ~HasDigit(processed_text)

\* "0021" has become "двадцать один"
C6_LeadingZerosExpanded ==
    /\ pc = "returned"
    /\ text = <<48, 48, 50, 49>>
    /\ processed_text = join(<<SP>>, <<_russian_tens[2], _russian_units[1]>>)

\* the noun the statement of C7 gives the count t of thousands
ThousandNoun(t) ==
    IF t = 1 THEN WORD_THOUSAND_ONE
    ELSE IF t \in 2..4 THEN WORD_THOUSAND_FEW
    ELSE WORD_THOUSAND_MANY

\* C7: the expansion of n in 1000..999999, with t = n div 1000 and
\* r = n mod 1000, is made of the expansion of t (nothing when t = 1), the
\* noun "тысяча" for t = 1, "тысячи" for t in 2..4, "тысяч" for t >= 5, and
\* then the expansion of r when r # 0, nothing when r = 0.
C7_ThousandAgreement ==
    (pc = "returned" /\ AllDigits(text) /\ int(text) \in 1000..999999) =>
        LET t == int(text) \div 1000
            r == int(text) % 1000
            count == IF t = 1 THEN <<>> ELSE split(convert_russian_number(str(t)))
            rest == IF r = 0 THEN <<>> ELSE split(convert_russian_number(str(r)))
        IN /\ ~HasDigit(convert_russian_number(str(t)))
           /\ split(processed_text) = count \o <<ThousandNoun(t)>> \o rest

\* "4020" has become "четыре тысячи двадцать"
C7_FourThousandTwenty ==
    /\ pc = "returned"
    /\ text = <<52, 48, 50, 48>>
    /\ split(processed_text) = <<_russian_units[4], WORD_THOUSAND_FEW, _russian_tens[2]>>

\* C8: when the text given to preprocess_text_for_tts is Russian and has a
\* word-bounded integer literal of 1 000 000 or more, the canonical text
\* has that literal with the same digits (stated where accent placement,
\* which is not part of the statement, is off).
C8_OversizedNumeralKept ==
    (pc = "preprocessed" /\ impl = "MultilingualTTS" /\ language = "russian"
         /\ "add_accents" \notin Range(stages)) =>
        \A i \in DigitRunStarts(text) :
            (WordBounded(text, i) /\ int(Literal(text, i)) >= 1000000)
                => Occurs(processed_text, Literal(text, i))

\* the text the abbreviation loop starts from, and the matches on it
LoopInput == Cells(SubLeadingV(text))
KeyOf(k) == sorted_abbreviations[k][1]
Overlap(i, k, j, n) == i <= j + Len(KeyOf(n)) - 1 /\ j <= i + Len(KeyOf(k)) - 1
FiredAt(k, i) ==
    \E e \in fired : e.k = k /\ e.lo = i /\ e.hi = i + Len(KeyOf(k)) - 1 /\ e.over = {}

\* C9: no substitution of the abbreviation loop rewrites a character that
\* an expansion wrote, and where the patterns of a longer and of a shorter
\* key match the text on overlapping characters the shorter one is not
\* substituted there.
C9_NoDoubleSubstitution ==
    pc = "returned" =>
        /\ \A e \in fired : e.over = {} /\ e.lo > 0 /\ e.hi = e.lo + Len(KeyOf(e.k)) - 1
        /\ LET input == LoopInput
               matching == {k \in 1..Len(sorted_abbreviations) : MatchesFrom(input, 1, k) # {}}
           IN \A k \in matching, n \in matching :
                  Len(KeyOf(n)) > Len(KeyOf(k)) =>
                      \A i \in MatchesFrom(input, 1, k), j \in MatchesFrom(input, 1, n) :
                          Overlap(i, k, j, n) => ~FiredAt(k, i)

\* "см." has become "смотри.": the expansion of "см." stands, and neither
\* "см" nor "м" was substituted
C9_LongestOfThreeFired ==
    /\ pc = "returned"
    /\ text = <<1089, 1084, 46, 46>>
    /\ Cardinality(fired) = 1
    /\ \E e \in fired : KeyOf(e.k) = <<1089, 1084, 46>> /\ e.lo = 1

DottedEntries == {k \in 1..Len(sorted_abbreviations) : HasDot(KeyOf(k))}
\* the key of entry k stands at index i of the text, in any case
OccursAt(k, i) == LiteralAt(LoopInput, i, KeyOf(k))
NextToWord(k, i) == WordAt(LoopInput, i - 1) \/ WordAt(LoopInput, i + Len(KeyOf(k)))
\* C10 as stated: every occurrence of a key with a period that has no word
\* character just before or after it is replaced by the expansion of the
\* key, and an occurrence next to a word character is not.
C10_EveryDottedOccurrenceReplaced ==
    pc = "returned" =>
        \A k \in DottedEntries, i \in 1..Len(LoopInput) :
            OccursAt(k, i) =>
                IF NextToWord(k, i) THEN ~FiredAt(k, i) ELSE FiredAt(k, i)

\* C10 amended: an occurrence of a key with a period that has no word
\* character just before or after it is replaced by the expansion of the
\* key unless the pattern of a key earlier in the descending-length order
\* matches on characters of it; an occurrence next to a word character is
\* not replaced by the expansion of that key.
C10_DottedOccurrenceReplacedUnlessTaken ==
    pc = "returned" =>
        \A k \in DottedEntries, i \in 1..Len(LoopInput) :
            OccursAt(k, i) =>
                IF NextToWord(k, i) THEN ~FiredAt(k, i)
                ELSE \/ FiredAt(k, i)
                     \/ \E n \in 1..(k - 1) :
                            \E j \in MatchesFrom(LoopInput, 1, n) : Overlap(i, k, j, n)

\* "т.д." alone, the period at the very end of the text, has become
\* "так далее"
C10_EndOfTextExpanded ==
    /\ pc = "returned"
    /\ text = <<1090, 46, 1076, 46>>
    /\ processed_text = <<1090, 1072, 1082, SP, 1076, 1072, 1083, 1077, 1077>>
    /\ \E k \in DottedEntries : KeyOf(k) = text /\ FiredAt(k, 1)

\* C11: every surface form of the table source is listed once, so every
\* listed pair applies: a text that is a listed form alone becomes the
\* expansion listed with it.
C11_EveryListedPairApplies ==
    pc = "returned" =>
        \A i \in 1..Len(abbreviations_literal) :
            text = abbreviations_literal[i][1] => processed_text = abbreviations_literal[i][2]

\* the one-letter words "а", "и", "в", "с", "к", "о", "у", "я"
OneLetterWords == {1072, 1080, 1074, 1089, 1082, 1086, 1091, 1103}
\* the character at index i of the text is a word on its own
StandsAlone(i) == ~WordAt(LoopInput, i - 1) /\ ~WordAt(LoopInput, i + 1)

\* C12: the abbreviation loop never substitutes a one-letter word of the
\* running text: no substitution takes a character that stands alone and
\* is one of the one-letter words.
C12_OneLetterWordsKept ==
    pc = "returned" =>
        \A i \in 1..Len(LoopInput) :
            (LoopInput[i].c \in OneLetterWords /\ StandsAlone(i)) =>
                \A e \in fired : ~(e.lo <= i /\ i <= e.hi)

\* out is the tokens with each token of letters only replaced by some
\* letters, and every other token as it is, in the same order
RECURSIVE Skeleton(_, _)
Skeleton(tokens, out) ==
    IF tokens = <<>> THEN out = <<>>
    ELSE IF str_isalpha(Head(tokens))
    THEN \E k \in 1..Len(out) :
             /\ str_isalpha(SubSeq(out, 1, k))
             /\ Skeleton(Tail(tokens), SubSeq(out, k + 1, Len(out)))
    ELSE /\ Len(out) >= Len(Head(tokens))
         /\ SubSeq(out, 1, Len(Head(tokens))) = Head(tokens)
         /\ Skeleton(Tail(tokens), SubSeq(out, Len(Head(tokens)) + 1, Len(out)))

\* C13: the tokens of the splitter concatenate back to the text, and
\* yoficate changes tokens of letters only: every other token is in the
\* result unchanged and in its place among the words.
C13_SkeletonPreserved ==
    pc = "returned" =>
        /\ Concat(splitter_findall(text, 1)) = text
        /\ Skeleton(splitter_findall(text, 1), processed_text)

\* "7сидел, ее\n" with the dictionary loaded: the word changed, the token
\* with a digit and the separators did not
C13_WordChangedBetweenSeparators ==
    /\ pc = "returned"
    /\ DOMAIN dictionary # {}
    /\ text = <<55, 1089, 1080, 1076, 1077, 1083, 44, SP, 1077, 1077, NL>>
    /\ processed_text = <<55, 1089, 1080, 1076, 1077, 1083, 44, SP, 1077, 1105, NL>>

\* the words rule 1..5 of _apply_additional_rules name, and the exception
\* lists of rule 6 and rule 7
\* "телка", "осел", "еще", "ее", "произнес"
OverrideWords ==
    { <<1090, 1077, 1083, 1082, 1072>>, <<1086, 1089, 1077, 1083>>, <<1077, 1097, 1077>>,
      <<1077, 1077>>, <<1087, 1088, 1086, 1080, 1079, 1085, 1077, 1089>> }
\* "телка", "щелка", "мелка", "желтка", "дела"
FeminineExceptions ==
    { <<1090, 1077, 1083, 1082, 1072>>, <<1097, 1077, 1083, 1082, 1072>>,
      <<1084, 1077, 1083, 1082, 1072>>, <<1078, 1077, 1083, 1090, 1082, 1072>>,
      <<1076, 1077, 1083, 1072>> }
\* "медведь", "привет", "как", "дела", "удел", "предел", "умел", "смел"
PastTenseExceptions ==
    { <<1084, 1077, 1076, 1074, 1077, 1076, 1100>>, <<1087, 1088, 1080, 1074, 1077, 1090>>,
      <<1082, 1072, 1082>>, <<1076, 1077, 1083, 1072>>, <<1091, 1076, 1077, 1083>>,
      <<1087, 1088, 1077, 1076, 1077, 1083>>, <<1091, 1084, 1077, 1083>>,
      <<1089, 1084, 1077, 1083>> }

\* the first token of the text and what follows it
TheWord == splitter_findall(text, 1)[1]
TheRest == SubSeq(text, Len(TheWord) + 1, Len(text))

\* the text is one word of small letters and a separator, the dictionary is
\* loaded and does not have the word, and no override names it
HeuristicWord ==
    /\ pc = "returned"
    /\ DOMAIN dictionary # {}
    /\ Len(splitter_findall(text, 1)) = 2
    /\ \A i \in 1..Len(TheWord) : IsCyrillicLower(TheWord[i])
    /\ TheWord \notin DOMAIN dictionary
    /\ TheWord \notin OverrideWords

\* the indices of "е" before the last letter of the word
YeBeforeSuffix(word) == {i \in 1..(Len(word) - 1) : word[i] = YE_LOWER}

\* C14: a word outside dictionary and overrides that ends in "а" and has
\* "е" before it becomes the word with the last such "е" turned into "ё",
\* nothing else changed; a word of the exception list stays as it is.
C14_FeminineSuffixLastYe ==
    (HeuristicWord /\ TheWord[Len(TheWord)] = 1072 /\ YeBeforeSuffix(TheWord) # {}) =>
        IF TheWord \in FeminineExceptions THEN processed_text = text
        ELSE processed_text =
                 [TheWord EXCEPT ![Max(YeBeforeSuffix(TheWord))] = YO_LOWER] \o TheRest

\* C15: a word outside dictionary and overrides, longer than three letters,
\* that ends in "ел" becomes the word with the "е" of that ending turned
\* into "ё", nothing else changed, an earlier "ел" included; a word of the
\* exception list is not changed by the rule.
C15_PastTenseSuffixOnly ==
    (HeuristicWord /\ Len(TheWord) > 3
         /\ SubSeq(TheWord, Len(TheWord) - 1, Len(TheWord)) = <<YE_LOWER, 1083>>) =>
        IF TheWord \in PastTenseExceptions THEN processed_text = text
        ELSE processed_text = [TheWord EXCEPT ![Len(TheWord) - 1] = YO_LOWER] \o TheRest

\* C16: the result of yoficate has the length of the text and differs from
\* it only where the text has "е" and the result has "ё".
C16_OnlyYeBecomesYo ==
    pc = "returned" =>
        /\ Len(processed_text) = Len(text)
        /\ \A i \in 1..Len(text) :
               processed_text[i] # text[i] =>
                   text[i] = YE_LOWER /\ processed_text[i] = YO_LOWER

\* the entries the statement of C17 gives a line of yo.dat: none for a line
\* with "*", base + a for each alternative a of "base(a1|...|an)", the line
\* itself for a line without parentheses
StatedValues(line) ==
    IF Contains(line, STAR) THEN {}
    ELSE IF Contains(line, LPAREN)
    THEN LET open == Min({i \in 1..Len(line) : line[i] = LPAREN})
             base == SubSeq(line, 1, open - 1)
             inside == SelectSeq(SubSeq(line, open + 1, Len(line)), LAMBDA c : c # RPAREN)
         IN {base \o a : a \in Range(SplitOn(inside, BAR))}
    ELSE {line}

\* C17: the loaded dictionary holds for each line of yo.dat the entries
\* stated, and no others, each under the key that is its value with every
\* "ё" replaced by "е".
C17_DictionaryAsStated ==
    DOMAIN dictionary # {} =>
        /\ \A k \in DOMAIN dictionary : k = FoldYo(dictionary[k])
        /\ Range(dictionary) = UNION {StatedValues(line) : line \in Range(yo_dat_lines)}

\* the speaking rate (in tenths) and the step count stated for a canonical
\* text of L characters other than spaces
StatedRate(L) ==
    CASE L <= 3 -> 1
      [] 4 <= L /\ L <= 8 -> 3
      [] 9 <= L /\ L <= 18 -> 6
      [] 19 <= L /\ L <= 35 -> 8
      [] 36 <= L /\ L <= 45 -> 9
      [] L > 45 -> 10
StatedSteps(L) == IF L > 120 THEN 18 ELSE 26
WithoutSpaces(s) == SelectSeq(s, LAMBDA c : c # SP)

C19_SuppliedValuePassedOn ==
    /\ kwargs.speed # <<>> => speed = kwargs.speed
    /\ kwargs.nfe_step # <<>> => nfe_step = kwargs.nfe_step
    /\ \A i \in DOMAIN infer_calls :
           LET call == infer_calls[i]
               L == Len(WithoutSpaces(call.gen_text))
           IN /\ kwargs.speed # <<>> => call.speed = kwargs.speed[1]
              /\ kwargs.nfe_step # <<>> => call.nfe_step = kwargs.nfe_step[1]
              /\ (kwargs.speed # <<>> /\ kwargs.nfe_step = <<>>) => call.nfe_step = StatedSteps(L)
              /\ (kwargs.nfe_step # <<>> /\ kwargs.speed = <<>>) => call.speed = StatedRate(L)

\* speed=0.0 was passed with a text of 120 letters: the engine got the rate
\* 0.0 and the 18 steps of the heuristic
C19_ZeroSpeedKept ==
    /\ pc = "done" /\ result = "path"
    /\ kwargs = [speed |-> <<0>>, nfe_step |-> <<>>]
    /\ text = Letters(120)
    /\ infer_calls = <<[gen_text |-> Letters(120) \o <<DOT>>, speed |-> 0, nfe_step |-> 18]>>

\* the accent component failed: its call raised, or it has neither method
AccentFailed(done) ==
    /\ "add_accents" \in Range(done)
    /\ accentizer = "neither" \/ "except Exception" \in Range(done)

\* C20: when the accent component raises or offers neither supported method,
\* the accent step leaves the text as it was and hands over to the closing
\* punctuation step, which returns the text without trailing whitespace, with
\* "." added unless it ends in ".", "!" or "?": the steps, and so the
\* canonical text, of a pipeline with accent placement disabled.
C20_AccentFailureAbsorbed ==
    [][ /\ (pc = "add_accents" /\ AccentFailed(stages')) =>
               /\ processed_text' = processed_text
               /\ pc' = "punctuation"
        /\ (pc = "punctuation" /\ AccentFailed(stages)) =>
               /\ pc' = "preprocessed"
               /\ processed_text' =
                      LET kept == rstrip(processed_text)
                      IN IF kept[Len(kept)] \in {DOT, BANG, QUESTION} THEN kept
                         ELSE kept \o <<DOT>>
      ]_vars

\* the call of the accent component raised on "е": the text came back as
\* "е." all the same
C20_RaisedAndReturnedText ==
    /\ pc = "preprocessed"
    /\ "except Exception" \in Range(stages)
    /\ text = <<YE_LOWER>>
    /\ processed_text = <<YE_LOWER, DOT>>

\* C21: a yo.dat that is not found gives an empty dictionary, with which
\* yofication changes nothing; an accent component that did not load makes
\* the accent step change nothing; a yofication that raises leaves the text
\* of the numeral and abbreviation expansion. Each time the pipeline goes on
\* to its next stage.
C21_MissingResourcesSkipped ==
    [][ /\ DOMAIN _load_dictionary([found |-> FALSE, lines |-> <<>>]) = {}
        /\ (/\ pc = "normalize_text" /\ language = "russian"
            /\ DOMAIN dictionary = {} \/ "yoficate_text raised" \in Range(stages')) =>
               /\ processed_text' = NumberConversion(processed_text, language).out
               /\ pc' = "add_accents"
        /\ (pc = "yoficate_text" /\ DOMAIN dictionary = {}) =>
               /\ processed_text' = processed_text
               /\ pc' = "add_accents"
        /\ (pc = "add_accents" /\ accentizer = "None") =>
               /\ processed_text' = processed_text
               /\ pc' = "punctuation"
      ]_vars

\* "ее" was synthesized by an object without yo.dat and without the accent
\* component: the canonical text is "ее."
C21_SynthesizedWithoutBoth ==
    /\ pc = "done" /\ result = "path"
    /\ enable_accent /\ accentizer = "None" /\ DOMAIN dictionary = {}
    /\ text = <<YE_LOWER, YE_LOWER>>
    /\ processed_text = <<YE_LOWER, YE_LOWER, DOT>>

\* what preprocess_text_for_tts returns for the text when it runs alone on
\* an object with accent placement off
RunAlone(s) ==
    LET stripped == strip(s)
        collapsed == _remove_long_symbol_sequences(stripped)
        routed == detect_language(collapsed)
        normalized == _simple_number_conversion(join(<<SP>>, split(collapsed)), routed)
    IN IF stripped = <<>> \/ _is_only_symbols(stripped) \/ strip(collapsed) = <<>> THEN <<>>
       ELSE TerminalPunctuation(IF routed = "russian" THEN yoficate(normalized, dictionary)
                                ELSE normalized)

\* C22: with calls of preprocess_text_for_tts interleaved on one object, each
\* call returns what it returns alone, no call finds a numeral table missing,
\* and the yo-dictionary and the numeral tables of the object are what they
\* were after construction.
C22_SharedStateUntouched ==
    /\ \A t \in DOMAIN threads :
           /\ threads[t].pc = "returned" => threads[t].processed_text = RunAlone(threads[t].text)
           /\ ~threads[t].except
    /\ dictionary = _load_dictionary(DefaultConfig.yo_dat)
    /\ attributes = NoAttributes

\* C23: sanitizing is idempotent: the text the sanitizing steps of the
\* pipeline leave (the collapsed text handed to language detection, or the ""
\* returned) is what sanitize makes of the input, and sanitizing it again
\* gives the same text.
C23_SanitizeIdempotent ==
    (pc = "detect_language" \/ pc = "preprocessed") =>
        /\ processed_text = sanitize(text)
        /\ sanitize(processed_text) = processed_text

\* " kkkkk\n" was sanitized to "kkk"
C23_StrippedAndCollapsed ==
    /\ pc = "detect_language"
    /\ text = <<SP>> \o RunOf(107, 5) \o <<NL>>
    /\ processed_text = RunOf(107, 3)

RoutedStages == {"detect_language", "split_join", "normalize_text", "yoficate_text",
                 "add_accents", "punctuation"}

\* C24: the repeat collapse runs before language detection and every stage
\* after it, and the language that routes the text through those stages is
\* detect_language of the stripped and collapsed input, not of the input.
C24_RoutedByCollapsedText ==
    impl # "CorrectTTS" =>
        /\ \A i \in DOMAIN stages :
               stages[i] \in RoutedStages =>
                   \E j \in 1..(i - 1) : stages[j] = "_remove_long_symbol_sequences"
        /\ pc \in {"split_join", "normalize_text", "yoficate_text", "add_accents", "punctuation"} =>
               language = detect_language(_remove_long_symbol_sequences(strip(text)))

\* "kkkkеее" has more Latin letters than Cyrillic ones, "kkkеее" has not: the
\* text went to normalize_text as Russian
C24_TieAfterCollapse ==
    /\ pc = "normalize_text"
    /\ text = RunOf(107, 4) \o RunOf(YE_LOWER, 3)
    /\ processed_text = RunOf(107, 3) \o RunOf(YE_LOWER, 3)
    /\ language = "russian"

OneThousand == <<111, 110, 101, 32, 116, 104, 111, 117, 115, 97, 110, 100>>    \* "one thousand"
OneHundred == <<111, 110, 101, 32, 104, 117, 110, 100, 114, 101, 100>>         \* "one hundred"
EnglishKeys == SortedByKeyLen(number_map)

\* C25: the English table is applied with the longer keys first: the result
\* has one "one thousand" for each "1000" of the text and one "one hundred"
\* for each "100" of the text that is not the start of a "1000", and no key
\* is applied before a longer one.
C25_LongestKeyFirst ==
    /\ \A i, j \in 1..Len(EnglishKeys) : i < j => Len(EnglishKeys[i][1]) >= Len(EnglishKeys[j][1])
    /\ (pc = "returned" /\ language = "english") =>
           /\ Cardinality(OccursFrom(processed_text, 1, OneThousand))
                  = Cardinality(OccursFrom(text, 1, <<49, 48, 48, 48>>))
           /\ Cardinality(OccursFrom(processed_text, 1, OneHundred))
                  = Cardinality(OccursFrom(text, 1, <<49, 48, 48>>)
                                    \ OccursFrom(text, 1, <<49, 48, 48, 48>>))

\* "21000" became "twoone thousand"
C25_ThousandInsideLongerNumeral ==
    /\ pc = "returned" /\ language = "english"
    /\ text = <<50, 49, 48, 48, 48>>
    /\ processed_text = <<116, 119, 111>> \o OneThousand

\* the rate (in tenths) the note of the web interface gives for a text of L
\* characters
DocumentedRate(L) ==
    CASE L <= 3 -> 1
      [] 4 <= L /\ L <= 8 -> 3
      [] 9 <= L /\ L <= 16 -> 6
      [] 17 <= L /\ L <= 30 -> 9
      [] L > 30 -> 10

\* C26: with speed and nfe_step left to the program, the engine is called
\* with the rate of the note of the web interface (0.1 up to 3 characters,
\* 0.3 for 4-8, 0.6 for 9-16, 0.9 for 17-30, 1.0 above 30) and with 18 steps
\* for a text of more than 120 characters, 26 otherwise.
C26_RateAsDocumented ==
    kwargs = Defaults =>
        \A i \in DOMAIN infer_calls :
            LET L == Len(WithoutSpaces(infer_calls[i].gen_text))
            IN /\ infer_calls[i].speed = DocumentedRate(L)
               /\ infer_calls[i].nfe_step = IF L > 120 THEN 18 ELSE 26

\* accent placement is off, not loaded, without a method, or its call raised
AccentsLeftText ==
    \/ ~enable_accent
    \/ accentizer \in {"None", "neither"}
    \/ "except Exception" \in Range(stages)

\* C27: when accent placement did not touch the text, the language
\* synthesize_speech detects on a non-empty canonical text is the language
\* preprocess_text_for_tts detected before normalization, the one that chose
\* the branch.
C27_RoutingStable ==
    [][ (/\ pc = "preprocessed" /\ method = "synthesize_speech"
         /\ processed_text # <<>> /\ AccentsLeftText) =>
            language' = language ]_vars

\* "EU ее" (two Latin letters, two Cyrillic) went the Russian way, "EU" was
\* spelled out in Cyrillic, and the canonical text is Russian again
C27_LatinAbbreviationSpelled ==
    /\ pc = "prosody" /\ AccentsLeftText
    /\ text = <<69, 85, SP, YE_LOWER, YE_LOWER>>
    /\ 69 \notin Range(processed_text)
    /\ language = "russian"

\* C28: when the text given to preprocess_text_for_tts is Russian and has a
\* word-bounded integer literal of at most 999999, the canonical text has
\* the spoken form of that very number (stated where accent placement is
\* off).
C28_NumeralValueKept ==
    (pc = "preprocessed" /\ impl = "MultilingualTTS" /\ language = "russian"
         /\ "add_accents" \notin Range(stages)) =>
        \A i \in DigitRunStarts(text) :
            (WordBounded(text, i) /\ int(Literal(text, i)) <= 999999)
                => Occurs(processed_text, convert_russian_number(Literal(text, i)))

\* C29: with a loaded dictionary, the text yoficate returns is a fixed point
\* of yoficate: a second pass over the result changes nothing.
C29_YoficateIdempotent ==
    (pc = "returned" /\ method = "yoficate" /\ DOMAIN dictionary # {}) =>
        yoficate(processed_text, dictionary) = processed_text

\* C30: whenever load_tts_model of a web interface answers that the model
\* is loaded (newly or already), or synthesize_speech of the interface calls
\* the TTS object, the instance held was constructed with the settings of
\* that request, and current_model_type and current_accent_enabled are the
\* model type and the accent enablement of the instance held.
C30_CacheConsistent ==
    (pc = "web" /\ (web.reply \in {"loaded", "already loaded"} \/ web.handed)) =>
        /\ web.tts # <<>>
        /\ \A f \in DOMAIN web.asked[1] : web.tts[1][f] = web.asked[1][f]
        /\ web.current_model_type = web.tts[1].model_type
        /\ "current_accent_enabled" \in DOMAIN web =>
               web.current_accent_enabled = web.tts[1].enable_accent

=============================================================================
